---- MODULE Spec2Model ----
(***************************************************************************)
(* A model of microredis: the storage engine with lazy and active expiry,  *)
(* the WATCH/MULTI/EXEC transaction manager, the cooperative connection    *)
(* handler with pub/sub fan-out, the streaming RESP2 parser and the        *)
(* snapshot writer.  Each subsystem has its own specification:             *)
(*   Spec        the keyspace under single commands and the clock          *)
(*   SpecTxn     WATCH/MULTI/EXEC of one connection against another        *)
(*   SpecSched   connection-handler tasks and their suspension points      *)
(*   SpecParser  RESPParser.feed / RESPParser.parse over byte chunks       *)
(*   SpecSnap    SnapshotManager.save / load over a small file system      *)
(***************************************************************************)
EXTENDS Integers, Sequences, FiniteSets, TLC

VARIABLES
    storage,        \* Storage: [data, types, expires, version, heap]
    now,            \* time.ticks_ms()
    client_state,   \* TransactionManager._client_state: conn -> TransactionState
    dirty,          \* history: watched keys of a connection mutated by others since its WATCH
    last,           \* history: the last command, its reply and what it observed
    conns,          \* per connection: handler position, socket, parser buffer, command
    channels,       \* PubSubManager._channels: channel -> set of connections
    sched,          \* history: the task the event loop resumed last
    parser,         \* RESPParser: buffer, offsets and the state of its state machine
    wire,           \* a request stream on its way into the parser, and the frames yielded
    disk,           \* the file system under the snapshot path, and the save in progress
    net             \* PubSubManager's registries, the connections' handlers and publish calls

storeVars == <<storage, now, client_state, dirty, last>>
schedVars == <<conns, channels, sched>>
ioVars == <<parser, wire, disk, net>>

vars == <<storeVars, schedVars, ioVars>>

-----------------------------------------------------------------------------
(* Bounds of the model *)

\* key-count cap; 50000 in core/constants.py, scaled down so the cap is reached
MAX_KEYS == 1
\* the clock advances from 0 to MaxNow milliseconds
MaxNow == 1
\* a key is not mutated any more once its version counter reaches MaxVersion
MaxVersion == 3
\* commands queued in one MULTI block
MaxQueue == 2
\* elements pushed onto one list
MaxList == 2
\* request frames one client sends
MaxFrames == 3

Keys == {"a", "b"}
\* c1 is the connection that uses transactions, c2 issues single commands
Conns == {"c1", "c2"}

-----------------------------------------------------------------------------
(* Python dict helpers *)

DictGet(d, k, default) == IF k \in DOMAIN d THEN d[k] ELSE default

DictPut(d, k, v) == [x \in (DOMAIN d) \cup {k} |-> IF x = k THEN v ELSE d[x]]

DictPop(d, k) == [x \in (DOMAIN d) \ {k} |-> d[x]]

EmptyDict == [x \in {} |-> 0]

\* the one element of a singleton set: The({e(x) : x \in {v}}) is e(v), with v
\* computed once
The(singleton) == CHOOSE x \in singleton : TRUE

-----------------------------------------------------------------------------
(* Values, type tags and replies *)

TYPE_STRING == 0
TYPE_LIST == 2
TYPE_STREAM == 5

\* a stored Python value: bytes, a list, or a stream dict with its 'entries',
\* 'last_id' and 'length'
Bytes(b) == [kind |-> "bytes", items |-> b, last_id |-> 0, scores |-> EmptyDict, length |-> 0]
List(l) == [kind |-> "list", items |-> l, last_id |-> 0, scores |-> EmptyDict, length |-> 0]
Stream(entries, lastid, length) ==
    [kind |-> "stream", items |-> entries, last_id |-> lastid, scores |-> EmptyDict,
     length |-> length]
NoValue == [kind |-> "none", items |-> <<>>, last_id |-> 0, scores |-> EmptyDict, length |-> 0]

\* a RESP reply: kind, an integer payload and a bulk payload
Reply(kind, n, v) == [kind |-> kind, n |-> n, v |-> v]
RESP_OK == Reply("ok", 0, <<>>)
RESP_NULL == Reply("nil", 0, <<>>)
RESP_QUEUED == Reply("queued", 0, <<>>)
RESP_NULL_ARRAY == Reply("nullarray", 0, <<>>)
integer(n) == Reply("int", n, <<>>)
bulk_string(v) == Reply("bulk", 0, v)
error(e) == Reply(e, 0, <<>>)

\* the outcome of one storage call: the storage afterwards and the reply
Out(S, r) == [S |-> S, r |-> r]

-----------------------------------------------------------------------------
(* RESP parser: core/protocol.py.  Bytes are their codes; buffer positions   *)
(* are the code's 0-based positions, buf holds the bytes below _buffer_len.  *)

BUFFER_SIZE == 16
SIMPLE_STRING == 43
ERROR == 45
INTEGER == 58
BULK_STRING == 36
ARRAY == 42
MAX_ARRAY_DEPTH == 32
MAX_BULK_SIZE == 65536
MAX_ARRAY_SIZE == 8192
STATE_IDLE == 0
STATE_READING_TYPE == 1
STATE_READING_LINE == 2
STATE_READING_BULK == 3
STATE_READING_ARRAY == 4

\* RESPParser.__init__
NewParser ==
    [buf |-> <<>>, off |-> 0, line_start |-> 0, state |-> STATE_IDLE, typ |-> 0,
     bulk_len |-> 0, array_len |-> 0, elems |-> <<>>, depth |-> 0]

\* the python slice b[lo:hi]
Slice(b, lo, hi) == SubSeq(b, lo + 1, IF hi > Len(b) THEN Len(b) ELSE hi)

\* feed: append, after moving the unconsumed bytes to the front when the
\* buffer would pass BUFFER_SIZE; the move also zeroes _line_start
feed(p, data) ==
    IF data = <<>> THEN p
    ELSE IF Len(p.buf) + Len(data) > BUFFER_SIZE /\ p.off > 0
    THEN [p EXCEPT !.buf = Slice(@, p.off, Len(@)) \o data, !.off = 0, !.line_start = 0]
    ELSE [p EXCEPT !.buf = @ \o data]

\* position of the first CR LF at or after start, -1 when there is none
_find_crlf(p, start) ==
    IF \E i \in start .. Len(p.buf) - 2 : p.buf[i + 1] = 13 /\ p.buf[i + 2] = 10
    THEN CHOOSE i \in start .. Len(p.buf) - 2 :
            /\ p.buf[i + 1] = 13 /\ p.buf[i + 2] = 10
            /\ \A j \in start .. i - 1 : ~(p.buf[j + 1] = 13 /\ p.buf[j + 2] = 10)
    ELSE -1

\* bytes.find(b'\n') from the offset, as a buffer position, -1 when none
FindLF(p) ==
    IF \E i \in p.off .. Len(p.buf) - 1 : p.buf[i + 1] = 10
    THEN CHOOSE i \in p.off .. Len(p.buf) - 1 :
            p.buf[i + 1] = 10 /\ \A j \in p.off .. i - 1 : p.buf[j + 1] # 10
    ELSE -1

_consume_bytes(p, up_to) ==
    [p EXCEPT !.off = up_to, !.line_start = up_to, !.state = STATE_IDLE]

IsSpace(b) == b \in {9, 10, 11, 12, 13, 32}

RECURSIVE Strip(_)
Strip(s) ==
    IF s = <<>> THEN s
    ELSE IF IsSpace(Head(s)) THEN Strip(Tail(s))
    ELSE IF IsSpace(s[Len(s)]) THEN Strip(SubSeq(s, 1, Len(s) - 1))
    ELSE s

RECURSIVE Decimal(_)
Decimal(d) == IF d = <<>> THEN 0 ELSE 10 * Decimal(SubSeq(d, 1, Len(d) - 1)) + (d[Len(d)] - 48)

IsDigits(d) == d # <<>> /\ \A i \in 1 .. Len(d) : d[i] \in 48 .. 57

\* int(line): blanks at both ends dropped, an optional sign, decimal digits;
\* ok is FALSE where int raises ValueError
int(line) ==
    The({ IF IsDigits(d) THEN [ok |-> TRUE, val |-> Decimal(d)]
          ELSE IF d # <<>> /\ Head(d) = 45 /\ IsDigits(Tail(d))
          THEN [ok |-> TRUE, val |-> 0 - Decimal(Tail(d))]
          ELSE IF d # <<>> /\ Head(d) = 43 /\ IsDigits(Tail(d))
          THEN [ok |-> TRUE, val |-> Decimal(Tail(d))]
          ELSE [ok |-> FALSE, val |-> 0] : d \in {Strip(line)} })

\* decode('utf-8').upper() of an ASCII name
upper(s) == [i \in 1 .. Len(s) |-> IF s[i] \in 97 .. 122 THEN s[i] - 32 ELSE s[i]]

\* what one pass of parse leaves: the parser, and "more" (next pass of the
\* loop), "none" (return None), "frame" (a (command, args) pair) or "error"
Pass(p, kind, cmd, args) == [p |-> p, kind |-> kind, cmd |-> cmd, args |-> args]

_complete_message(p, value) == Pass([p EXCEPT !.state = STATE_IDLE], "frame", value, <<>>)

\* the first element, uppercased, is the command (None, here <<>>, when empty)
_complete_array(p) ==
    Pass([p EXCEPT !.elems = <<>>, !.state = STATE_IDLE], "frame",
         IF p.elems = <<>> THEN <<>> ELSE upper(Head(p.elems)),
         IF p.elems = <<>> THEN <<>> ELSE Tail(p.elems))

\* _tokenize_inline on a line: tokens are the runs between blanks (quoted
\* tokens are not modelled: no request of the model holds a quote)
RECURSIVE _tokenize_inline(_)
_tokenize_inline(line) ==
    IF line = <<>> THEN <<>>
    ELSE IF Head(line) \in {32, 9} THEN _tokenize_inline(Tail(line))
    ELSE The({ <<SubSeq(line, 1, n)>> \o _tokenize_inline(SubSeq(line, n + 1, Len(line))) :
               n \in {CHOOSE m \in 1 .. Len(line) :
                        /\ \A i \in 1 .. m : line[i] \notin {32, 9}
                        /\ (m < Len(line) => line[m + 1] \in {32, 9})} })

\* the line from the offset to position line_end, consumed up to next
InlineLine(p, line_end, next) ==
    The({ IF line = <<>> \/ (\A i \in 1 .. Len(line) : IsSpace(line[i]))
          THEN Pass(_consume_bytes(p, next), "none", <<>>, <<>>)
          ELSE The({ IF tokens = <<>> THEN Pass(_consume_bytes(p, next), "none", <<>>, <<>>)
                     ELSE Pass(_consume_bytes(p, next), "frame", upper(Head(tokens)), Tail(tokens)) :
                     tokens \in {_tokenize_inline(line)} }) :
          line \in {Slice(p.buf, p.off, line_end)} })

_parse_inline_command(p) ==
    IF _find_crlf(p, p.off) # -1 THEN InlineLine(p, _find_crlf(p, p.off), _find_crlf(p, p.off) + 2)
    ELSE IF FindLF(p) # -1 THEN InlineLine(p, FindLF(p), FindLF(p) + 1)
    ELSE Pass(p, "none", <<>>, <<>>)

Max0(n) == IF n > 0 THEN n ELSE 0

\* STATE_IDLE: nothing buffered returns None, else a message starts at the offset
IdlePass(p) ==
    IF Len(p.buf) - p.off = 0 THEN Pass(p, "none", <<>>, <<>>)
    ELSE Pass([p EXCEPT !.state = STATE_READING_TYPE, !.line_start = p.off], "more", <<>>, <<>>)

\* STATE_READING_TYPE: the byte at the offset is a type marker, or the line is
\* an inline command
TypePass(p) ==
    IF Len(p.buf) - p.off < 1 THEN Pass(p, "none", <<>>, <<>>)
    ELSE IF p.buf[p.off + 1] \notin {SIMPLE_STRING, ERROR, INTEGER, BULK_STRING, ARRAY}
    THEN _parse_inline_command([p EXCEPT !.typ = p.buf[p.off + 1]])
    ELSE IF p.buf[p.off + 1] = ARRAY
    THEN Pass([p EXCEPT !.typ = ARRAY, !.line_start = p.off + 1,
                        !.state = STATE_READING_LINE, !.elems = <<>>, !.depth = @ + 1],
              IF p.depth + 1 > MAX_ARRAY_DEPTH THEN "error" ELSE "more", <<>>, <<>>)
    ELSE Pass([p EXCEPT !.typ = p.buf[p.off + 1], !.line_start = p.off + 1,
                        !.state = STATE_READING_LINE], "more", <<>>, <<>>)

\* the length line of a bulk string, n = int(line)
BulkLength(p, crlf, n) ==
    IF ~n.ok THEN Pass(p, "error", <<>>, <<>>)
    ELSE IF n.val = -1
    THEN Pass(_consume_bytes([p EXCEPT !.bulk_len = -1], crlf + 2), "frame", <<>>, <<>>)
    ELSE IF n.val < -1 \/ n.val > MAX_BULK_SIZE
    THEN Pass([p EXCEPT !.bulk_len = n.val], "error", <<>>, <<>>)
    ELSE Pass([p EXCEPT !.bulk_len = n.val, !.line_start = crlf + 2,
                        !.state = STATE_READING_BULK], "more", <<>>, <<>>)

\* the length line of an array, n = int(line)
ArrayLength(p, crlf, n) ==
    IF ~n.ok THEN Pass(p, "error", <<>>, <<>>)
    ELSE IF n.val > MAX_ARRAY_SIZE
    THEN Pass(_consume_bytes([p EXCEPT !.array_len = n.val], crlf + 2), "error", <<>>, <<>>)
    ELSE IF n.val = 0
    THEN Pass(_consume_bytes([p EXCEPT !.array_len = 0, !.depth = Max0(@ - 1)], crlf + 2),
              "frame", <<>>, <<>>)
    ELSE Pass([_consume_bytes([p EXCEPT !.array_len = n.val], crlf + 2)
                  EXCEPT !.state = STATE_READING_ARRAY], "more", <<>>, <<>>)

\* STATE_READING_LINE: the line from _line_start up to the next CR LF
LinePass(p, crlf) ==
    IF crlf = -1 THEN Pass(p, "none", <<>>, <<>>)
    ELSE IF p.typ \in {SIMPLE_STRING, ERROR}
    THEN Pass(_consume_bytes(p, crlf + 2), "frame", Slice(p.buf, p.line_start, crlf), <<>>)
    ELSE IF p.typ = INTEGER
    THEN The({ IF n.ok THEN Pass(_consume_bytes(p, crlf + 2), "frame", <<n.val>>, <<>>)
               ELSE Pass(p, "error", <<>>, <<>>) :
               n \in {int(Slice(p.buf, p.line_start, crlf))} })
    ELSE IF p.typ = BULK_STRING
    THEN BulkLength(p, crlf, int(Slice(p.buf, p.line_start, crlf)))
    ELSE ArrayLength(p, crlf, int(Slice(p.buf, p.line_start, crlf)))

\* the array after one more element, the parser consumed up to the element's end
ElementDone(q) ==
    IF Len(q.elems) = q.array_len
    THEN _complete_array([q EXCEPT !.depth = Max0(@ - 1)])
    ELSE Pass([q EXCEPT !.state = STATE_READING_TYPE], "more", <<>>, <<>>)

\* STATE_READING_BULK: _bulk_len bytes from _line_start and two more, which are
\* not looked at
BulkPass(p) ==
    IF Len(p.buf) - p.line_start < p.bulk_len + 2 THEN Pass(p, "none", <<>>, <<>>)
    ELSE IF Len(p.elems) < p.array_len
    THEN ElementDone(_consume_bytes(
             [p EXCEPT !.elems = Append(@, Slice(p.buf, p.line_start, p.line_start + p.bulk_len))],
             p.line_start + p.bulk_len + 2))
    ELSE Pass(_consume_bytes(p, p.line_start + p.bulk_len + 2), "frame",
              Slice(p.buf, p.line_start, p.line_start + p.bulk_len), <<>>)

\* one iteration of the loop of parse
OnePass(p) ==
    CASE p.state = STATE_IDLE -> IdlePass(p)
      [] p.state = STATE_READING_TYPE -> TypePass(p)
      [] p.state = STATE_READING_LINE -> LinePass(p, _find_crlf(p, p.line_start))
      [] p.state = STATE_READING_BULK -> BulkPass(p)
      [] OTHER -> Pass([p EXCEPT !.state = STATE_READING_TYPE], "more", <<>>, <<>>)

\* parse: iterate until a pass returns or raises
RECURSIVE parse(_)
parse(p) == The({ IF s.kind = "more" THEN parse(s.p) ELSE s : s \in {OnePass(p)} })

\* an entry of the sequence of frames a reader of the parser collects
Frame(s) == [kind |-> s.kind, cmd |-> s.cmd, args |-> s.args]

\* feed once, then parse until None or an error: the frames collected
RECURSIVE Drain(_, _)
Drain(p, out) ==
    The({ IF s.kind = "frame" THEN Drain(s.p, Append(out, Frame(s)))
          ELSE IF s.kind = "error" THEN Append(out, Frame(s))
          ELSE out : s \in {parse(p)} })

-----------------------------------------------------------------------------
(* Storage engine (storage/engine.py) *)

TICKS_PERIOD == 1073741824

ticks_add(a, b) == (a + b) % TICKS_PERIOD

ticks_diff(a, b) ==
    LET d == (a - b) % TICKS_PERIOD
    IN IF d < TICKS_PERIOD \div 2 THEN d ELSE d - TICKS_PERIOD

_is_expired(S, key, t) ==
    /\ key \in DOMAIN S.expires
    /\ ticks_diff(S.expires[key], t) <= 0

\* lazy expiry: drops the key with its deadline, type tag and version counter
_delete_if_expired(S, key, t) ==
    IF _is_expired(S, key, t)
    THEN [S EXCEPT !.data = DictPop(@, key),
                   !.expires = DictPop(@, key),
                   !.types = DictPop(@, key),
                   !.version = DictPop(@, key)]
    ELSE S

_check_type(S, key, expected_type) ==
    /\ key \in DOMAIN S.data
    /\ DictGet(S.types, key, TYPE_STRING) = expected_type

_increment_version(S, key) ==
    [S EXCEPT !.version = DictPut(@, key, DictGet(@, key, 0) + 1)]

_set_expiry_relative_ms(S, key, ms, t) ==
    [S EXCEPT !.expires = DictPut(@, key, ticks_add(t, ms))]

check_can_create_key(S, key) ==
    ~(key \notin DOMAIN S.data /\ Cardinality(DOMAIN S.data) >= MAX_KEYS)

OOM == error("OOM")
WRONGTYPE == error("WRONGTYPE")

\* Storage.get: nil for an absent or expired key, WRONGTYPE for a non-string
get(S, key, t) ==
    IF key \notin DOMAIN S.data THEN Out(S, RESP_NULL)
    ELSE The({ IF key \notin DOMAIN S1.data THEN Out(S1, RESP_NULL)
               ELSE IF ~_check_type(S1, key, TYPE_STRING) THEN Out(S1, WRONGTYPE)
               ELSE Out(S1, bulk_string(S1.data[key].items))
               : S1 \in {_delete_if_expired(S, key, t)} })

\* Storage.set(key, value, px=px, nx=nx, xx=xx); px = 0 stands for "no PX"
set(S, key, value, px, nx, xx, t) ==
    The({ IF nx /\ key \in DOMAIN S1.data THEN Out(S1, RESP_NULL)
          ELSE IF xx /\ key \notin DOMAIN S1.data THEN Out(S1, RESP_NULL)
          ELSE IF key \notin DOMAIN S1.data /\ Cardinality(DOMAIN S1.data) >= MAX_KEYS
               THEN Out(S1, OOM)
          ELSE Out(_increment_version(
                       [S1 EXCEPT !.data = DictPut(@, key, Bytes(value)),
                                  !.types = DictPop(@, key),
                                  !.expires = IF px > 0 THEN DictPut(@, key, ticks_add(t, px))
                                              ELSE DictPop(@, key)], key),
                   RESP_OK)
          : S1 \in {_delete_if_expired(S, key, t)} })

\* Storage.delete(key): no expiry check; the version counter is bumped and kept
delete(S, key) ==
    IF key \in DOMAIN S.data
    THEN Out(_increment_version([S EXCEPT !.data = DictPop(@, key),
                                          !.types = DictPop(@, key),
                                          !.expires = DictPop(@, key)], key),
             integer(1))
    ELSE Out(S, integer(0))

exists(S, key, t) ==
    IF key \notin DOMAIN S.data THEN Out(S, integer(0))
    ELSE The({ Out(S1, integer(IF key \in DOMAIN S1.data THEN 1 ELSE 0))
               : S1 \in {_delete_if_expired(S, key, t)} })

\* Storage.type: the reply's n is the type tag, -1 for "none"
type(S, key, t) ==
    IF key \notin DOMAIN S.data THEN Out(S, integer(-1))
    ELSE The({ IF key \notin DOMAIN S1.data THEN Out(S1, integer(-1))
               ELSE Out(S1, integer(DictGet(S1.types, key, TYPE_STRING)))
               : S1 \in {_delete_if_expired(S, key, t)} })

TTL_NOT_EXISTS == -2
TTL_NO_EXPIRY == -1

pttl(S, key, t) ==
    IF key \notin DOMAIN S.data THEN Out(S, integer(TTL_NOT_EXISTS))
    ELSE The({ IF key \notin DOMAIN S1.data THEN Out(S1, integer(TTL_NOT_EXISTS))
               ELSE IF key \notin DOMAIN S1.expires THEN Out(S1, integer(TTL_NO_EXPIRY))
               ELSE Out(S1, integer(ticks_diff(S1.expires[key], t)))
               : S1 \in {_delete_if_expired(S, key, t)} })

pexpire(S, key, ms, t) ==
    IF key \notin DOMAIN S.data THEN Out(S, integer(0))
    ELSE The({ IF key \notin DOMAIN S1.data THEN Out(S1, integer(0))
               ELSE Out(_set_expiry_relative_ms(S1, key, ms, t), integer(1))
               : S1 \in {_delete_if_expired(S, key, t)} })

\* Storage._set_expiry_ms: the deadline also goes onto the ExpiryManager heap
_set_expiry_ms(S, key, timestamp_ms) ==
    [S EXCEPT !.expires = DictPut(@, key, timestamp_ms),
              !.heap = @ \cup {<<timestamp_ms, key>>}]

\* Storage.pexpireat(key, ms_timestamp), the wall clock reading t
pexpireat(S, key, ms_timestamp, t) ==
    IF key \notin DOMAIN S.data THEN Out(S, integer(0))
    ELSE The({ IF key \notin DOMAIN S1.data THEN Out(S1, integer(0))
               ELSE IF ms_timestamp - t <= 0 THEN Out(delete(S1, key).S, integer(1))
               ELSE Out(_set_expiry_ms(S1, key, ticks_add(t, ms_timestamp - t)), integer(1))
               : S1 \in {_delete_if_expired(S, key, t)} })

RECURSIVE ExpireAll(_, _, _)
ExpireAll(S, ks, t) ==
    IF ks = {} THEN S
    ELSE LET k == CHOOSE x \in ks : TRUE
         IN ExpireAll(_delete_if_expired(S, k, t), ks \ {k}, t)

\* Storage.keys(b'*'): expired keys are pruned; the keys listed are those left
\* in data, the reply's n is their number
keys(S, t) ==
    The({ Out(S1, Reply("keys", Cardinality(DOMAIN S1.data), <<>>))
          : S1 \in {ExpireAll(S, DOMAIN S.data, t)} })

\* Storage.rename: the destination is deleted, then data, type tag, deadline
\* and version counter move from key to newkey
\* the entry of key, when the dict has one, becomes the entry of newkey
MoveEntry(d, key, newkey) ==
    IF key \in DOMAIN d THEN DictPop(DictPut(d, newkey, d[key]), key) ELSE d

rename(S, key, newkey, t) ==
    IF key \notin DOMAIN S.data THEN Out(S, error("ERR"))
    ELSE The({ IF key \notin DOMAIN S1.data THEN Out(S1, error("ERR"))
               \* newkey = key: the key is deleted as the destination, and the
               \* read of _data[key] that follows raises KeyError
               ELSE IF newkey = key THEN Out(delete(S1, key).S, error("ERR"))
               ELSE Out(_increment_version(
                            [(IF newkey \in DOMAIN S1.data THEN delete(S1, newkey).S ELSE S1)
                                EXCEPT !.data = MoveEntry(@, key, newkey),
                                       !.types = MoveEntry(@, key, newkey),
                                       !.expires = MoveEntry(@, key, newkey),
                                       !.version = MoveEntry(@, key, newkey)], newkey),
                        RESP_OK)
               : S1 \in {_delete_if_expired(S, key, t)} })

\* Storage.flush: every map and the expiry heap are cleared
flush(S) ==
    Out([data |-> EmptyDict, types |-> EmptyDict, expires |-> EmptyDict,
         version |-> EmptyDict, heap |-> {}], RESP_OK)

set_value_only(S, key, value) ==
    _increment_version([S EXCEPT !.data = DictPut(@, key, value)], key)

-----------------------------------------------------------------------------
(* String, list and stream operations *)

\* the byte b with its lowest bit set (data[byte_index] |= 1 << bit_index, bit_index 0)
SetLowBit(b) == IF b % 2 = 0 THEN b + 1 ELSE b

\* StringOperations.setbit(key, 7, 1): the first byte's lowest bit.  `existing`
\* is rebound to the zero-padded buffer before the final test, so that test
\* never takes the Storage.set branch
\* the buffer setbit works on: the old bytes, zero-padded to hold the bit
PadToBit(old) == IF Len(old) = 0 THEN <<0>> ELSE old

setbit(S, key, t) ==
    The({ IF g.r.kind = "WRONGTYPE" THEN g
          ELSE The({ IF Len(existing) > 0
                     THEN Out(set_value_only(g.S, key, Bytes([existing EXCEPT ![1] = SetLowBit(@)])),
                              integer(existing[1] % 2))
                     ELSE Out(set(g.S, key, [existing EXCEPT ![1] = SetLowBit(@)],
                                  0, FALSE, FALSE, t).S,
                              integer(existing[1] % 2))
                     : existing \in {PadToBit(IF g.r.kind = "nil" THEN <<>> ELSE g.r.v)} })
          : g \in {get(S, key, t)} })

\* ListOps._get_list / ListOps._set_list
_set_list(S, key, lst) ==
    _increment_version([S EXCEPT !.data = DictPut(@, key, List(lst)),
                                 !.types = DictPut(@, key, TYPE_LIST)], key)

\* ListOps.rpush(key, value)
\* rpush when _get_list found no list under key
rpush_new(S, key, value) ==
    IF check_can_create_key(S, key)
    THEN Out(_set_list(S, key, <<value>>), integer(1))
    ELSE Out(S, OOM)

rpush(S, key, value, t) ==
    IF key \notin DOMAIN S.data THEN rpush_new(S, key, value)
    ELSE The({ IF key \notin DOMAIN S1.data THEN rpush_new(S1, key, value)
               ELSE IF ~_check_type(S1, key, TYPE_LIST) THEN Out(S1, WRONGTYPE)
               ELSE Out(_set_list(S1, key, Append(S1.data[key].items, value)),
                        integer(Len(S1.data[key].items) + 1))
               : S1 \in {_delete_if_expired(S, key, t)} })

\* lpop that stores the list it has emptied
lpop_keeps_key(S, key, t) ==
    IF key \notin DOMAIN S.data THEN Out(S, RESP_NULL)
    ELSE The({ IF key \notin DOMAIN S1.data THEN Out(S1, RESP_NULL)
               ELSE IF ~_check_type(S1, key, TYPE_LIST) THEN Out(S1, WRONGTYPE)
               ELSE IF Len(S1.data[key].items) = 1
                    THEN Out(_set_list(S1, key, <<>>), bulk_string(S1.data[key].items))
               ELSE Out(_set_list(S1, key, Tail(S1.data[key].items)),
                        bulk_string(<<Head(S1.data[key].items)>>))
               : S1 \in {_delete_if_expired(S, key, t)} })

\* ListOps.lpop(key): the key is deleted when its list becomes empty
lpop(S, key, t) ==
    IF key \notin DOMAIN S.data THEN Out(S, RESP_NULL)
    ELSE The({ IF key \notin DOMAIN S1.data THEN Out(S1, RESP_NULL)
               ELSE IF ~_check_type(S1, key, TYPE_LIST) THEN Out(S1, WRONGTYPE)
               ELSE IF Len(S1.data[key].items) = 1
                    THEN Out(delete(S1, key).S, bulk_string(S1.data[key].items))
               ELSE Out(_set_list(S1, key, Tail(S1.data[key].items)),
                        bulk_string(<<Head(S1.data[key].items)>>))
               : S1 \in {_delete_if_expired(S, key, t)} })

\* ListOps.llen(key)
llen(S, key, t) ==
    IF key \notin DOMAIN S.data THEN Out(S, integer(0))
    ELSE The({ IF key \notin DOMAIN S1.data THEN Out(S1, integer(0))
               ELSE IF ~_check_type(S1, key, TYPE_LIST) THEN Out(S1, WRONGTYPE)
               ELSE Out(S1, integer(Len(S1.data[key].items)))
               : S1 \in {_delete_if_expired(S, key, t)} })

\* StreamOperations._set_stream: stores without consulting check_can_create_key
_set_stream(S, key, stream) ==
    _increment_version([S EXCEPT !.data = DictPut(@, key, stream),
                                 !.types = DictPut(@, key, TYPE_STREAM)], key)

\* StreamOperations.xadd(key, id, fields) with an explicit id ms-seq, held as
\* the number 10 * ms + seq; the id must exceed the stream's last_id
\* StreamOperations._get_stream: the stream under key, a new empty stream when
\* the key is absent
_get_stream(S, key) == IF key \in DOMAIN S.data THEN S.data[key] ELSE Stream(<<>>, 0, 0)

xadd(S, key, id, t) ==
    The({ IF _get_stream(S1, key).kind # "stream" THEN Out(S1, WRONGTYPE)
          ELSE IF _get_stream(S1, key).last_id # 0 /\ ~(id > _get_stream(S1, key).last_id)
               THEN Out(S1, error("ERR"))
          ELSE Out(_set_stream(S1, key,
                               Stream(Append(_get_stream(S1, key).items, id), id,
                                      _get_stream(S1, key).length + 1)),
                   bulk_string(<<id>>))
          : S1 \in {IF key \in DOMAIN S.data THEN _delete_if_expired(S, key, t) ELSE S} })

\* int(time.time() * 1000), the wall clock of the generated ids: positive, and
\* advancing with the tick counter
WallClock(t) == t + 1

\* StreamOperations._generate_id for the id '*': the clock's millisecond with
\* sequence 0, or the last id's millisecond with the next sequence number when
\* the clock has not passed it
_generate_id(stream, t) ==
    IF stream.last_id # 0 /\ t <= stream.last_id \div 10 THEN stream.last_id + 1 ELSE 10 * t

\* StreamOperations.xadd(key, '*', fields): the generated id is not compared
\* with last_id
xadd_auto(S, key, t) ==
    The({ IF _get_stream(S1, key).kind # "stream" THEN Out(S1, WRONGTYPE)
          ELSE The({ Out(_set_stream(S1, key,
                                     Stream(Append(_get_stream(S1, key).items, id), id,
                                            _get_stream(S1, key).length + 1)),
                         bulk_string(<<id>>))
                     : id \in {_generate_id(_get_stream(S1, key), WallClock(t))} })
          : S1 \in {IF key \in DOMAIN S.data THEN _delete_if_expired(S, key, t) ELSE S} })

\* entries[-maxlen:] of a Python list: the last maxlen entries, and the whole
\* list for maxlen = 0, since -0 is 0
LastEntries(entries, maxlen) ==
    IF maxlen = 0 \/ maxlen >= Len(entries) THEN entries
    ELSE SubSeq(entries, Len(entries) - maxlen + 1, Len(entries))

\* StreamOperations.xtrim(key, maxlen), maxlen >= 0: a stream whose 'length'
\* is above maxlen keeps entries[-maxlen:] and gets the length maxlen;
\* last_id stays
xtrim(S, key, maxlen, t) ==
    The({ IF _get_stream(S1, key).kind # "stream" THEN Out(S1, WRONGTYPE)
          ELSE The({ IF stream.length <= maxlen THEN Out(S1, integer(0))
                     ELSE Out(_set_stream(S1, key,
                                          Stream(LastEntries(stream.items, maxlen),
                                                 stream.last_id, maxlen)),
                              integer(stream.length - maxlen))
                     : stream \in {_get_stream(S1, key)} })
          : S1 \in {IF key \in DOMAIN S.data THEN _delete_if_expired(S, key, t) ELSE S} })

\* StreamOperations.xlen(key): the stream's 'length'
xlen(S, key, t) ==
    The({ IF _get_stream(S1, key).kind # "stream" THEN Out(S1, WRONGTYPE)
          ELSE Out(S1, integer(_get_stream(S1, key).length))
          : S1 \in {IF key \in DOMAIN S.data THEN _delete_if_expired(S, key, t) ELSE S} })

\* StreamOperations.xrange(key, '-', '+'): every entry of 'entries'
xrange(S, key, t) ==
    The({ IF _get_stream(S1, key).kind # "stream" THEN Out(S1, WRONGTYPE)
          ELSE Out(S1, Reply("array", Len(_get_stream(S1, key).items),
                             _get_stream(S1, key).items))
          : S1 \in {IF key \in DOMAIN S.data THEN _delete_if_expired(S, key, t) ELSE S} })

\* StreamOperations.xread for one (key, last_id): _get_stream's ValueError on a
\* value that is no stream is caught and the key skipped; no entry newer than
\* last_id, or a skipped key, gives None
xread(S, key, last_id, t) ==
    The({ IF _get_stream(S1, key).kind # "stream" THEN Out(S1, RESP_NULL)
          ELSE The({ IF entries = <<>> THEN Out(S1, RESP_NULL)
                     ELSE Out(S1, Reply("array", Len(entries), entries))
                     : entries \in {SelectSeq(_get_stream(S1, key).items,
                                              LAMBDA id : id > last_id)} })
          : S1 \in {IF key \in DOMAIN S.data THEN _delete_if_expired(S, key, t) ELSE S} })

\* CommandRouter._cmd_dbsize: len(storage._data)
dbsize(S) == Out(S, integer(Cardinality(DOMAIN S.data)))

-----------------------------------------------------------------------------
(* Hash, set and sorted-set operations (storage/datatypes) *)

TYPE_HASH == 1
TYPE_SET == 3
TYPE_ZSET == 4
\* entries a hash holds as a ziplist; 64 in core/constants.py, scaled down so
\* that the dict encoding is reached
ZIPLIST_MAX_ENTRIES == 1
INTSET_MAX_ENTRIES == 512

\* a stored hash, set or sorted set.  kind names the Python representation:
\* "ziplist" a list of (field, value), "dict" a dict field -> value (items in
\* insertion order), "intset" a sorted list of int, "set" a set of bytes,
\* sorted sets are built by Zset below
Value(kind, items) == [kind |-> kind, items |-> items, last_id |-> 0, scores |-> EmptyDict, length |-> 0]

\* the storage after the lazy-expiry check the datatype helpers make on a key
Checked(S, key, t) == IF key \in DOMAIN S.data THEN _delete_if_expired(S, key, t) ELSE S

\* _set_hash, _set_set and _set_zset on a key that passed check_can_create_key
_set_typed(S, key, type_id, value) ==
    _increment_version([S EXCEPT !.data = DictPut(@, key, value),
                                 !.types = DictPut(@, key, type_id)], key)

\* the same, with check_can_create_key raising MemoryError
CreateTyped(S, key, type_id, value, n) ==
    IF check_can_create_key(S, key)
    THEN Out(_set_typed(S, key, type_id, value), integer(n))
    ELSE Out(S, OOM)

HasField(items, field) == \E i \in 1 .. Len(items) : items[i][1] = field

\* HashType.hset(key, field, value)
hset(S, key, field, value, t) ==
    The({ IF key \notin DOMAIN S1.data
          THEN CreateTyped(S1, key, TYPE_HASH, Value("ziplist", <<<<field, value>>>>), 1)
          ELSE IF ~_check_type(S1, key, TYPE_HASH) THEN Out(S1, WRONGTYPE)
          ELSE IF HasField(S1.data[key].items, field)
          THEN Out(_increment_version(
                       [S1 EXCEPT !.data[key].items =
                            [i \in 1 .. Len(@) |-> IF @[i][1] = field
                                                   THEN <<field, value>> ELSE @[i]]], key),
                   integer(0))
          ELSE IF S1.data[key].kind = "ziplist"
                  /\ Len(S1.data[key].items) >= ZIPLIST_MAX_ENTRIES
          THEN Out(_set_typed(S1, key, TYPE_HASH,
                              Value("dict", Append(S1.data[key].items, <<field, value>>))),
                   integer(1))
          ELSE Out(_increment_version(
                       [S1 EXCEPT !.data[key].items = Append(@, <<field, value>>)], key),
                   integer(1))
          : S1 \in {Checked(S, key, t)} })

\* HashType.hget(key, field)
hget(S, key, field, t) ==
    The({ IF key \notin DOMAIN S1.data THEN Out(S1, RESP_NULL)
          ELSE IF ~_check_type(S1, key, TYPE_HASH) THEN Out(S1, WRONGTYPE)
          ELSE IF HasField(S1.data[key].items, field)
          THEN Out(S1, bulk_string(
                   (CHOOSE e \in {S1.data[key].items[i] : i \in 1 .. Len(S1.data[key].items)} :
                        e[1] = field)[2]))
          ELSE Out(S1, RESP_NULL)
          : S1 \in {Checked(S, key, t)} })

\* SetOperations._try_convert_to_int
_try_convert_to_int(value) == int(value)

\* str(i).encode() of an int that is not negative
RECURSIVE str(_)
str(i) == IF i < 10 THEN <<48 + i>> ELSE str(i \div 10) \o <<48 + (i % 10)>>

_convert_intset_to_set(intset) == [i \in 1 .. Len(intset) |-> str(intset[i])]

Contains(items, x) == \E i \in 1 .. Len(items) : items[i] = x

\* _insort_left / bisect.insort: x put before the first element not below it
InsortLeft(a, x, n) ==
    SubSeq(a, 1, n) \o <<x>> \o SubSeq(a, n + 1, Len(a))

_bisect_left(a, x) == Cardinality({i \in 1 .. Len(a) : a[i] < x})

\* sadd on an intset with one member, n = _try_convert_to_int(member)
IntsetAdd(S, key, member, n) ==
    IF ~n.ok
    THEN Out(_set_typed(S, key, TYPE_SET,
                        Value("set", Append(_convert_intset_to_set(S.data[key].items), member))),
             integer(1))
    ELSE IF Len(S.data[key].items) >= INTSET_MAX_ENTRIES
    THEN Out(_set_typed(S, key, TYPE_SET,
                        Value("set", IF Contains(_convert_intset_to_set(S.data[key].items), member)
                                     THEN _convert_intset_to_set(S.data[key].items)
                                     ELSE Append(_convert_intset_to_set(S.data[key].items), member))),
             integer(1))
    ELSE IF Contains(S.data[key].items, n.val) THEN Out(_increment_version(S, key), integer(0))
    ELSE Out(_increment_version(
                 [S EXCEPT !.data[key].items = InsortLeft(@, n.val, _bisect_left(@, n.val))], key),
             integer(1))

\* SetOperations.sadd(key, member)
sadd(S, key, member, t) ==
    The({ IF key \notin DOMAIN S1.data
          THEN The({ CreateTyped(S1, key, TYPE_SET,
                                 IF n.ok THEN Value("intset", <<n.val>>)
                                 ELSE Value("set", <<member>>), 1)
                     : n \in {_try_convert_to_int(member)} })
          ELSE IF ~_check_type(S1, key, TYPE_SET) THEN Out(S1, WRONGTYPE)
          ELSE IF S1.data[key].kind = "intset"
          THEN IntsetAdd(S1, key, member, _try_convert_to_int(member))
          ELSE IF Contains(S1.data[key].items, member) THEN Out(S1, integer(0))
          ELSE Out(_increment_version([S1 EXCEPT !.data[key].items = Append(@, member)], key),
                   integer(1))
          : S1 \in {Checked(S, key, t)} })

\* SetOperations.sismember(key, member)
sismember(S, key, member, t) ==
    The({ IF key \notin DOMAIN S1.data THEN Out(S1, integer(0))
          ELSE IF ~_check_type(S1, key, TYPE_SET) THEN Out(S1, WRONGTYPE)
          ELSE IF S1.data[key].kind = "intset"
          THEN Out(S1, integer(IF _try_convert_to_int(member).ok
                                  /\ Contains(S1.data[key].items, _try_convert_to_int(member).val)
                               THEN 1 ELSE 0))
          ELSE Out(S1, integer(IF Contains(S1.data[key].items, member) THEN 1 ELSE 0))
          : S1 \in {Checked(S, key, t)} })

\* SetOperations.smembers(key): the members as bytes, those of an intset
\* through _convert_intset_to_set
smembers(S, key, t) ==
    The({ IF key \notin DOMAIN S1.data THEN Out(S1, Reply("array", 0, <<>>))
          ELSE IF ~_check_type(S1, key, TYPE_SET) THEN Out(S1, WRONGTYPE)
          ELSE IF S1.data[key].kind = "intset"
          THEN Out(S1, Reply("array", Len(S1.data[key].items),
                             _convert_intset_to_set(S1.data[key].items)))
          ELSE Out(S1, Reply("array", Len(S1.data[key].items), S1.data[key].items))
          : S1 \in {Checked(S, key, t)} })

\* SetOperations.scard(key): len(data)
scard(S, key, t) ==
    The({ IF key \notin DOMAIN S1.data THEN Out(S1, integer(0))
          ELSE IF ~_check_type(S1, key, TYPE_SET) THEN Out(S1, WRONGTYPE)
          ELSE Out(S1, integer(Len(S1.data[key].items)))
          : S1 \in {Checked(S, key, t)} })

\* the pair (scores, sorted_list) stored for a sorted set: scores a dict
\* member -> score, sorted_list (items) a list of (score, member)
Zset(scores, sorted_list) ==
    [kind |-> "zset", items |-> sorted_list, last_id |-> 0, scores |-> scores, length |-> 0]

\* float scores.  A number is itself; float('nan') makes a new object each
\* time, and NaN + i stands for the i-th NaN object alive in one sorted set
NaN == 100
IsNaN(x) == x >= NaN

\* x < y and x == y of two floats: both false as soon as one is a NaN
FloatLt(x, y) == ~IsNaN(x) /\ ~IsNaN(y) /\ x < y
FloatEq(x, y) == ~IsNaN(x) /\ ~IsNaN(y) /\ x = y

\* a < b of two bytes objects
RECURSIVE BytesLt(_, _)
BytesLt(a, b) ==
    IF b = <<>> THEN FALSE
    ELSE IF a = <<>> THEN TRUE
    ELSE IF Head(a) # Head(b) THEN Head(a) < Head(b)
    ELSE BytesLt(Tail(a), Tail(b))

\* a < b of two (score, member) tuples: the first pair of elements that are
\* neither the same object nor equal decides; a NaN is the same as itself only
TupleLt(a, b) ==
    IF a[1] # b[1] THEN FloatLt(a[1], b[1]) ELSE BytesLt(a[2], b[2])

\* bisect.bisect_left(a, x, lo, hi), positions counted from 0
RECURSIVE bisect_left(_, _, _, _)
bisect_left(a, x, lo, hi) ==
    IF lo >= hi THEN lo
    ELSE IF TupleLt(a[(lo + hi) \div 2 + 1], x)
    THEN bisect_left(a, x, (lo + hi) \div 2 + 1, hi)
    ELSE bisect_left(a, x, lo, (lo + hi) \div 2)

\* bisect.bisect_right(a, x, lo, hi)
RECURSIVE bisect_right(_, _, _, _)
bisect_right(a, x, lo, hi) ==
    IF lo >= hi THEN lo
    ELSE IF TupleLt(x, a[(lo + hi) \div 2 + 1])
    THEN bisect_right(a, x, lo, (lo + hi) \div 2)
    ELSE bisect_right(a, x, (lo + hi) \div 2 + 1, hi)

\* SortedSetOperations._add_to_sorted: bisect.insort(sorted_list, (score, member))
_add_to_sorted(sorted_list, score, member) ==
    InsortLeft(sorted_list, <<score, member>>,
               bisect_right(sorted_list, <<score, member>>, 0, Len(sorted_list)))

\* SortedSetOperations._remove_from_sorted: the entry at the position
\* bisect_left finds is deleted if it is (score, member)
_remove_from_sorted(sorted_list, score, member) ==
    The({ IF idx < Len(sorted_list) /\ sorted_list[idx + 1] = <<score, member>>
          THEN SubSeq(sorted_list, 1, idx) \o SubSeq(sorted_list, idx + 2, Len(sorted_list))
          ELSE sorted_list
          : idx \in {bisect_left(sorted_list, <<score, member>>, 0, Len(sorted_list))} })

\* the float a score argument becomes: a NaN is an object no entry of the
\* sorted set holds yet
float(value, score) ==
    IF ~IsNaN(score) THEN score
    ELSE CHOOSE x \in NaN .. NaN + Len(value.items) + 1 :
             /\ \A i \in 1 .. Len(value.items) : value.items[i][1] # x
             /\ \A m \in DOMAIN value.scores : value.scores[m] # x
             /\ \A y \in NaN .. x - 1 :
                   \/ \E i \in 1 .. Len(value.items) : value.items[i][1] = y
                   \/ \E m \in DOMAIN value.scores : value.scores[m] = y

\* SortedSetOperations._set_zset on a key that holds a sorted set
_set_zset(S, key, scores, sorted_list) ==
    IF DOMAIN scores = {} THEN delete(S, key).S
    ELSE _set_typed(S, key, TYPE_ZSET, Zset(scores, sorted_list))

\* the loop body of zadd for one member of an existing sorted set: TRUE where
\* the flags make the loop skip it
Skipped(scores, score, member, flags) ==
    \/ "nx" \in flags /\ member \in DOMAIN scores
    \/ "xx" \in flags /\ member \notin DOMAIN scores
    \/ /\ "gt" \in flags /\ member \in DOMAIN scores
       /\ (FloatLt(score, scores[member]) \/ FloatEq(score, scores[member]))
    \/ /\ "lt" \in flags /\ member \in DOMAIN scores
       /\ (FloatLt(scores[member], score) \/ FloatEq(score, scores[member]))

\* SortedSetOperations.zadd(key, {member: score}, nx, xx, gt, lt, ch); flags is
\* the set of the flags that are True
zadd(S, key, score, member, flags, t) ==
    The({ IF key \notin DOMAIN S1.data
          THEN IF "xx" \in flags THEN Out(S1, integer(0))
               ELSE CreateTyped(S1, key, TYPE_ZSET,
                                Zset(DictPut(EmptyDict, member, float(NoValue, score)),
                                     <<<<float(NoValue, score), member>>>>), 1)
          ELSE IF ~_check_type(S1, key, TYPE_ZSET) THEN Out(S1, WRONGTYPE)
          ELSE The({ IF Skipped(v.scores, x, member, flags)
                     THEN Out(_set_zset(S1, key, v.scores, v.items), integer(0))
                     ELSE IF member \in DOMAIN v.scores
                     THEN Out(_set_zset(S1, key, DictPut(v.scores, member, x),
                                        _add_to_sorted(
                                            _remove_from_sorted(v.items, v.scores[member],
                                                                member),
                                            x, member)),
                              integer(IF "ch" \in flags /\ ~FloatEq(v.scores[member], x)
                                      THEN 1 ELSE 0))
                     ELSE Out(_set_zset(S1, key, DictPut(v.scores, member, x),
                                        _add_to_sorted(v.items, x, member)),
                              integer(1))
                     : v \in {S1.data[key]}, x \in {float(S1.data[key], score)} })
          : S1 \in {Checked(S, key, t)} })

\* SortedSetOperations.zrem(key, member): a member of scores is deleted there
\* and looked for in sorted_list, then _set_zset deletes the key of a sorted
\* set whose scores are empty and stores any other one again
zrem(S, key, member, t) ==
    The({ IF key \notin DOMAIN S1.data THEN Out(S1, integer(0))
          ELSE IF ~_check_type(S1, key, TYPE_ZSET) THEN Out(S1, WRONGTYPE)
          ELSE IF member \notin DOMAIN S1.data[key].scores
          THEN Out(_set_zset(S1, key, S1.data[key].scores, S1.data[key].items), integer(0))
          ELSE Out(_set_zset(S1, key, DictPop(S1.data[key].scores, member),
                             _remove_from_sorted(S1.data[key].items,
                                                 S1.data[key].scores[member], member)),
                   integer(1))
          : S1 \in {Checked(S, key, t)} })

\* SortedSetOperations.zincrby(key, increment, member) with a number as
\* increment; the reply's n is the new score
zincrby(S, key, increment, member, t) ==
    The({ IF key \notin DOMAIN S1.data
          THEN CreateTyped(S1, key, TYPE_ZSET,
                           Zset(DictPut(EmptyDict, member, increment),
                                <<<<increment, member>>>>), increment)
          ELSE IF ~_check_type(S1, key, TYPE_ZSET) THEN Out(S1, WRONGTYPE)
          ELSE The({ IF member \in DOMAIN v.scores
                     THEN Out(_set_zset(S1, key, DictPut(v.scores, member, x),
                                        _add_to_sorted(
                                            _remove_from_sorted(v.items, v.scores[member],
                                                                member),
                                            x, member)),
                              integer(x))
                     ELSE Out(_set_zset(S1, key, DictPut(v.scores, member, x),
                                        _add_to_sorted(v.items, x, member)),
                              integer(x))
                     : v \in {S1.data[key]},
                       x \in {IF member \notin DOMAIN S1.data[key].scores THEN increment
                              ELSE IF IsNaN(S1.data[key].scores[member])
                              THEN float(S1.data[key], NaN)
                              ELSE S1.data[key].scores[member] + increment} })
          : S1 \in {Checked(S, key, t)} })

\* CommandRouter._cmd_zincrby: zincrby is called with member and increment
\* in each other's place, so after _get_zset the sum 0.0 + member raises a
\* TypeError that execute answers with an error
_cmd_zincrby(S, key, t) ==
    The({ IF key \in DOMAIN S1.data /\ ~_check_type(S1, key, TYPE_ZSET)
          THEN Out(S1, WRONGTYPE)
          ELSE Out(S1, error("ERR"))
          : S1 \in {Checked(S, key, t)} })

\* HashType.hdel(key, field): the field is taken out of the ziplist or the
\* dict; a hash left with no field is deleted with storage.delete
hdel(S, key, field, t) ==
    The({ IF key \notin DOMAIN S1.data THEN Out(S1, integer(0))
          ELSE IF ~_check_type(S1, key, TYPE_HASH) THEN Out(S1, WRONGTYPE)
          ELSE IF ~HasField(S1.data[key].items, field) THEN Out(S1, integer(0))
          ELSE IF Len(S1.data[key].items) = 1 THEN Out(delete(S1, key).S, integer(1))
          ELSE Out(_increment_version(
                       [S1 EXCEPT !.data[key].items = SelectSeq(@, LAMBDA e : e[1] # field)],
                       key),
                   integer(1))
          : S1 \in {Checked(S, key, t)} })

\* what srem looks for in the stored set: the int of the member in an intset
\* (nothing where the member is no int), the member's bytes in a set
Sought(value, member) ==
    IF value.kind = "intset"
    THEN IF _try_convert_to_int(member).ok THEN {_try_convert_to_int(member).val} ELSE {}
    ELSE {member}

\* SetOperations.srem(key, member): _intset_remove or set.remove; a set left
\* with no member is deleted with storage.delete
srem(S, key, member, t) ==
    The({ IF key \notin DOMAIN S1.data THEN Out(S1, integer(0))
          ELSE IF ~_check_type(S1, key, TYPE_SET) THEN Out(S1, WRONGTYPE)
          ELSE IF ~\E x \in Sought(S1.data[key], member) : Contains(S1.data[key].items, x)
          THEN Out(S1, integer(0))
          ELSE IF Len(S1.data[key].items) = 1 THEN Out(delete(S1, key).S, integer(1))
          ELSE Out(_increment_version(
                       [S1 EXCEPT !.data[key].items =
                            SelectSeq(@, LAMBDA x : x \notin Sought(S1.data[key], member))],
                       key),
                   integer(1))
          : S1 \in {Checked(S, key, t)} })

\* SetOperations.smove(source, dest, member): both keys validated, the member
\* removed from the source as srem removes it (the source deleted when left
\* empty), then sadd on the destination, whose MemoryError leaves smove
smove(S, source, dest, member, t) ==
    The({ IF source \in DOMAIN S1.data /\ ~_check_type(S1, source, TYPE_SET)
          THEN Out(S1, WRONGTYPE)
          ELSE The({ IF dest \in DOMAIN S2.data /\ ~_check_type(S2, dest, TYPE_SET)
                     THEN Out(S2, WRONGTYPE)
                     ELSE IF srem(S2, source, member, t).r = integer(0)
                     THEN Out(S2, integer(0))
                     ELSE The({ IF o.r.kind = "int" THEN Out(o.S, integer(1)) ELSE o
                                : o \in {sadd(srem(S2, source, member, t).S, dest, member, t)} })
                     : S2 \in {Checked(S1, dest, t)} })
          : S1 \in {Checked(S, source, t)} })

-----------------------------------------------------------------------------
(* String operations that rewrite a value (storage/datatypes/string.py) *)

\* StringOperations._int_to_bytes: str(value).encode('utf-8')
_int_to_bytes(n) == IF n < 0 THEN <<45>> \o str(0 - n) ELSE str(n)

\* the bytes a read returned, b'' for None
Existing(g) == IF g.r.kind = "nil" THEN <<>> ELSE g.r.v

\* the write that ends a string operation: Storage.set_value_only where the
\* code takes the branch that keeps the deadline, Storage.set where it does
\* not; r is what the operation returns when the write went through
Store(g, key, new, keep, r, t) ==
    IF keep THEN Out(set_value_only(g.S, key, Bytes(new)), r)
    ELSE The({ IF o.r = RESP_OK THEN Out(o.S, r) ELSE o
               : o \in {set(g.S, key, new, 0, FALSE, FALSE, t)} })

\* StringOperations.append: the type check raises ValueError
append(S, key, value, t) ==
    The({ IF g.r.kind = "WRONGTYPE" THEN Out(g.S, error("ERR"))
          ELSE Store(g, key, Existing(g) \o value, g.r.kind # "nil",
                     integer(Len(Existing(g) \o value)), t)
          : g \in {get(S, key, t)} })

\* existing + b'\x00' * (offset - len(existing))
ZeroPad(existing, offset) ==
    IF offset > Len(existing)
    THEN existing \o [i \in 1 .. (offset - Len(existing)) |-> 0]
    ELSE existing

\* existing[:offset] + value + existing[offset + len(value):]
Overwrite(existing, offset, value) ==
    Slice(existing, 0, offset) \o value \o
    (IF offset + Len(value) < Len(existing)
     THEN Slice(existing, offset + Len(value), Len(existing)) ELSE <<>>)

\* StringOperations.setrange with offset >= 0: `if existing:` tests the padded
\* bytes, so a key holding b'' written at offset 0 goes through Storage.set
setrange(S, key, offset, value, t) ==
    The({ IF g.r.kind = "WRONGTYPE" THEN g
          ELSE The({ Store(g, key, Overwrite(existing, offset, value), existing # <<>>,
                           integer(Len(Overwrite(existing, offset, value))), t)
                     : existing \in {ZeroPad(Existing(g), offset)} })
          : g \in {get(S, key, t)} })

\* StringOperations.incrby (incr, decr and decrby call it with 1, -1, -n)
incrby(S, key, increment, t) ==
    The({ IF g.r.kind = "WRONGTYPE" THEN g
          ELSE IF g.r.kind = "nil"
          THEN Store(g, key, _int_to_bytes(increment), FALSE, integer(increment), t)
          ELSE The({ IF ~n.ok THEN Out(g.S, error("ERR"))
                     ELSE Store(g, key, _int_to_bytes(n.val + increment), TRUE,
                                integer(n.val + increment), t)
                     : n \in {int(g.r.v)} })
          : g \in {get(S, key, t)} })

\* A Python int of any size, held as a sign and the decimal digits of its
\* magnitude without leading zeros; zero is not negative
Whole(neg, mag) == [ok |-> TRUE, neg |-> neg, mag |-> mag]

RECURSIVE Normal(_)
Normal(d) == IF Len(d) > 1 /\ Head(d) = 48 THEN Normal(Tail(d)) ELSE d

\* the digits of m + 1 and, for m >= 1, of m - 1
RECURSIVE Succ(_)
Succ(d) ==
    IF d = <<>> THEN <<49>>
    ELSE IF d[Len(d)] < 57 THEN SubSeq(d, 1, Len(d) - 1) \o <<d[Len(d)] + 1>>
    ELSE Succ(SubSeq(d, 1, Len(d) - 1)) \o <<48>>

RECURSIVE Pred(_)
Pred(d) ==
    IF d[Len(d)] > 48 THEN SubSeq(d, 1, Len(d) - 1) \o <<d[Len(d)] - 1>>
    ELSE Pred(SubSeq(d, 1, Len(d) - 1)) \o <<57>>

\* StringOperations._bytes_to_int: int(value.decode('utf-8')), ok is FALSE
\* where it raises ValueError
_bytes_to_int(value) ==
    The({ IF IsDigits(d) THEN Whole(FALSE, Normal(d))
          ELSE IF d # <<>> /\ Head(d) = 45 /\ IsDigits(Tail(d))
          THEN Whole(Normal(Tail(d)) # <<48>>, Normal(Tail(d)))
          ELSE IF d # <<>> /\ Head(d) = 43 /\ IsDigits(Tail(d))
          THEN Whole(FALSE, Normal(Tail(d)))
          ELSE [ok |-> FALSE, neg |-> FALSE, mag |-> <<>>] : d \in {Strip(value)} })

\* current + 1 and current - 1
Plus(n, up) ==
    IF n.neg = ~up THEN Whole(n.neg, Succ(n.mag))
    ELSE IF n.mag = <<48>> THEN Whole(~up, <<49>>)
    ELSE Whole(n.neg /\ Normal(Pred(n.mag)) # <<48>>, Normal(Pred(n.mag)))

\* str(value).encode('utf-8') of such an int
Digits(n) == IF n.neg THEN <<45>> \o n.mag ELSE n.mag

\* StringOperations.incrby(key, 1) and incrby(key, -1) as incr and decr call
\* it, on ints of any size; the reply carries the digits of the new value
step(S, key, up, t) ==
    The({ IF g.r.kind = "WRONGTYPE" THEN g
          ELSE The({ IF ~n.ok THEN Out(g.S, error("ERR"))
                     ELSE Store(g, key, Digits(Plus(n, up)), g.r.kind # "nil",
                                Reply("int", 0, Digits(Plus(n, up))), t)
                     : n \in {IF g.r.kind = "nil" THEN Whole(FALSE, <<48>>)
                               ELSE _bytes_to_int(g.r.v)} })
          : g \in {get(S, key, t)} })

incr(S, key, t) == step(S, key, TRUE, t)

decr(S, key, t) == step(S, key, FALSE, t)

\* StringOperations.getset: storage.get, then storage.set(key, value)
getset(S, key, value, t) ==
    The({ IF g.r.kind = "WRONGTYPE" THEN g
          ELSE Store(g, key, value, FALSE, g.r, t)
          : g \in {get(S, key, t)} })

\* StringOperations.getex with no option: the value, nothing else
getex(S, key, t) == get(S, key, t)

\* StringOperations.msetnx, first loop: storage.exists(key) > 0 for some key
RECURSIVE AnyExists(_, _, _)
AnyExists(S, ks, t) ==
    IF ks = <<>> THEN Out(S, integer(0))
    ELSE The({ IF o.r.n > 0 THEN o ELSE AnyExists(o.S, Tail(ks), t)
               : o \in {exists(S, Head(ks), t)} })

\* StringOperations.msetnx, second loop: storage.set(key, value) key by key;
\* a MemoryError leaves the loop with the earlier keys written
RECURSIVE SetEach(_, _, _, _)
SetEach(S, ks, value, t) ==
    IF ks = <<>> THEN Out(S, integer(1))
    ELSE The({ IF o.r # RESP_OK THEN o ELSE SetEach(o.S, Tail(ks), value, t)
               : o \in {set(S, Head(ks), value, 0, FALSE, FALSE, t)} })

\* StringOperations.msetnx over the keys of the mapping, in insertion order
msetnx(S, ks, value, t) ==
    The({ IF e.r.n > 0 THEN Out(e.S, integer(0)) ELSE SetEach(e.S, ks, value, t)
          : e \in {AnyExists(S, ks, t)} })

-----------------------------------------------------------------------------
(* Snapshot manager (persistence/snapshot.py) *)

\* a file: absent ("none"), a prefix of a snapshot ("partial", too short or with
\* a wrong CRC) or a whole snapshot ("full"); recs are its key records
File(state, recs) == [state |-> state, recs |-> recs]
NoFile == File("none", EmptyDict)

\* True and False as save and load return them
True == Reply("true", 0, <<>>)
False == Reply("false", 0, <<>>)

\* the _encode_*_value the type tag selects, applied to the stored value: ok is
\* FALSE where it raises.  _encode_hash_value calls value.items(), which a
\* ziplist (a list) has not; _encode_set_value calls member.encode on the ints
\* of an intset; _encode_zset_value unpacks (score, member) from the scores
\* dict; _encode_stream_value encodes the stream dict as a hash and calls
\* encode on its list of entries
_encode_value(type_id, value) ==
    CASE type_id = TYPE_STRING -> [ok |-> TRUE, val |-> value.items]
      [] type_id = TYPE_HASH   -> [ok |-> value.kind = "dict", val |-> value.items]
      [] type_id = TYPE_LIST   -> [ok |-> TRUE, val |-> value.items]
      [] type_id = TYPE_SET    -> [ok |-> value.kind = "set", val |-> value.items]
      [] OTHER                 -> [ok |-> FALSE, val |-> <<>>]

\* _encode_key: type tag, deadline flag and deadline, encoded value
_encode_key(S, key) ==
    The({ [ok |-> e.ok,
           rec |-> [type_id |-> DictGet(S.types, key, TYPE_STRING),
                    has_ttl |-> IF key \in DOMAIN S.expires THEN 1 ELSE 0,
                    ttl_ms |-> DictGet(S.expires, key, 0),
                    val |-> e.val]]
          : e \in {_encode_value(DictGet(S.types, key, TYPE_STRING), S.data[key])} })

\* the first part of save: every key of _data encoded; an exception of an
\* encoder makes save return False
EncodeKeys(S) ==
    [ok |-> \A key \in DOMAIN S.data : _encode_key(S, key).ok,
     recs |-> [key \in DOMAIN S.data |-> _encode_key(S, key).rec]]

\* the _decode_*_value the type tag selects
_decode_value(type_id, val) ==
    CASE type_id = TYPE_STRING -> Bytes(val)
      [] type_id = TYPE_HASH   -> Value("dict", val)
      [] type_id = TYPE_LIST   -> List(val)
      [] type_id = TYPE_SET    -> Value("set", val)
      [] type_id = TYPE_ZSET   -> Value("list", val)
      [] OTHER                 -> Value("dict", val)

\* load: False for a missing, short or CRC-failing file; else data, types,
\* expires and versions are cleared and refilled from the records (no type tag
\* for a string, no version counter and no heap entry for any key)
load(S, file) ==
    IF file.state # "full" THEN Out(S, False)
    ELSE Out([data |-> [k \in DOMAIN file.recs |->
                           _decode_value(file.recs[k].type_id, file.recs[k].val)],
              types |-> [k \in {x \in DOMAIN file.recs : file.recs[x].type_id # TYPE_STRING} |->
                           file.recs[k].type_id],
              expires |-> [k \in {x \in DOMAIN file.recs : file.recs[x].has_ttl = 1} |->
                           file.recs[k].ttl_ms],
              version |-> EmptyDict,
              heap |-> S.heap], True)

-----------------------------------------------------------------------------
(* Command router (network/router.py) *)

\* a parsed command: its name and arguments
Cmd(op, key, key2, arg) == [op |-> op, key |-> key, key2 |-> key2, arg |-> arg]

\* the value SET stores and the element RPUSH appends
SetValue == <<0>>
PushValue == 1
\* the member ZADD scores: the one byte "m"
ZMember == <<109>>
\* the bytes of a member name; the commands that name no member score "m"
encode(name) ==
    CASE name = "a" -> <<97>>
      [] name = "b" -> <<98>>
      [] OTHER -> ZMember

\* an exception that none of the except clauses of CommandRouter.execute takes
IndexError == Reply("IndexError", 0, <<>>)

\* CommandRouter._cmd_xread: the option loop reads args[i + 1] after COUNT or
\* BLOCK; key2 = "COUNT" is a request whose last argument is the option name
_cmd_xread(S, cmd, t) ==
    IF cmd.key2 = "COUNT" THEN Out(S, IndexError)
    ELSE xread(S, cmd.key, cmd.arg, t)

\* CommandRouter._check_arity: a request that names no key has the command
\* name alone, which only the commands of arity 1 or below accept (KEYS is
\* given its pattern)
_check_arity(cmd) == cmd.key # "" \/ cmd.op \in {"KEYS", "DBSIZE", "FLUSHDB", "PING"}

\* cmd_info.handler(storage, *args) with the except clauses of execute: the
\* handler of the command, exceptions to error replies
handler(S, cmd, t) ==
    CASE cmd.op = "SET"     -> set(S, cmd.key, SetValue, cmd.arg, FALSE, FALSE, t)
      [] cmd.op = "GET"     -> get(S, cmd.key, t)
      [] cmd.op = "DEL"     -> delete(S, cmd.key)
      [] cmd.op = "EXISTS"  -> exists(S, cmd.key, t)
      [] cmd.op = "TYPE"    -> type(S, cmd.key, t)
      [] cmd.op = "PTTL"    -> pttl(S, cmd.key, t)
      [] cmd.op = "PEXPIRE" -> pexpire(S, cmd.key, cmd.arg, t)
      [] cmd.op = "PEXPIREAT" -> pexpireat(S, cmd.key, cmd.arg, t)
      [] cmd.op = "KEYS"    -> keys(S, t)
      [] cmd.op = "DBSIZE"  -> dbsize(S)
      [] cmd.op = "RENAME"  -> rename(S, cmd.key, cmd.key2, t)
      [] cmd.op = "FLUSHDB" -> flush(S)
      [] cmd.op = "SETBIT"  -> setbit(S, cmd.key, t)
      [] cmd.op = "RPUSH"   -> rpush(S, cmd.key, PushValue, t)
      [] cmd.op = "LPOP"    -> lpop(S, cmd.key, t)
      [] cmd.op = "LLEN"    -> llen(S, cmd.key, t)
      [] cmd.op = "XADD"    -> IF cmd.key2 = "*" THEN xadd_auto(S, cmd.key, t)
                               ELSE xadd(S, cmd.key, cmd.arg, t)
      [] cmd.op = "XLEN"    -> xlen(S, cmd.key, t)
      [] cmd.op = "XRANGE"  -> xrange(S, cmd.key, t)
      [] cmd.op = "XTRIM"   -> xtrim(S, cmd.key, cmd.arg, t)
      [] cmd.op = "INCR"    -> incr(S, cmd.key, t)
      [] cmd.op = "DECR"    -> decr(S, cmd.key, t)
      [] cmd.op = "HSET"    -> hset(S, cmd.key, cmd.key2, SetValue, t)
      [] cmd.op = "HGET"    -> hget(S, cmd.key, cmd.key2, t)
      [] cmd.op = "SADD"    -> sadd(S, cmd.key, <<cmd.arg>>, t)
      [] cmd.op = "SISMEMBER" -> sismember(S, cmd.key, <<cmd.arg>>, t)
      [] cmd.op = "ZADD"    -> zadd(S, cmd.key, cmd.arg, encode(cmd.key2), {}, t)
      [] cmd.op = "HDEL"    -> hdel(S, cmd.key, cmd.key2, t)
      [] cmd.op = "SREM"    -> srem(S, cmd.key, <<cmd.arg>>, t)
      [] cmd.op = "ZREM"    -> zrem(S, cmd.key, encode(cmd.key2), t)
      [] cmd.op = "ZINCRBY" -> _cmd_zincrby(S, cmd.key, t)
      [] cmd.op = "APPEND"  -> append(S, cmd.key, cmd.arg, t)
      [] cmd.op = "SETRANGE" -> setrange(S, cmd.key, cmd.arg, SetValue, t)
      [] cmd.op = "INCRBY"  -> incrby(S, cmd.key, cmd.arg, t)
      [] cmd.op = "GETSET"  -> getset(S, cmd.key, SetValue, t)
      [] cmd.op = "GETEX"   -> getex(S, cmd.key, t)
      [] cmd.op = "XREAD"   -> _cmd_xread(S, cmd, t)
      [] cmd.op = "MSETNX"  -> msetnx(S, IF cmd.key2 = "" THEN <<cmd.key>>
                                         ELSE <<cmd.key, cmd.key2>>, SetValue, t)
      [] cmd.op = "PING"    -> Out(S, Reply("pong", 0, <<>>))
      [] OTHER              -> Out(S, error("ERR"))

\* the names CommandRouter._register_all_commands gives a handler
Registered ==
    {"SET", "GET", "DEL", "EXISTS", "TYPE", "PTTL", "PEXPIRE", "PEXPIREAT", "KEYS",
     "DBSIZE", "RENAME", "FLUSHDB", "SETBIT", "RPUSH", "LPOP", "LLEN", "XADD", "XTRIM", "XLEN", "XRANGE", "INCR", "DECR",
     "HSET", "HGET", "HDEL", "SADD", "SREM", "SISMEMBER", "ZADD", "ZREM", "ZINCRBY", "APPEND", "SETRANGE", "INCRBY",
     "GETSET", "GETEX", "MSETNX", "XREAD", "PING"}

\* CommandRouter.get_command_info(cmd) is not None
get_command_info(cmd) == cmd.op \in Registered

\* CommandRouter.execute: handler lookup, arity validation, the handler.  A
\* name with no handler is an unknown command.
execute(S, cmd, t) ==
    IF ~get_command_info(cmd) THEN Out(S, error("ERR"))
    ELSE IF ~_check_arity(cmd) THEN Out(S, error("ERR"))
    ELSE handler(S, cmd, t)

-----------------------------------------------------------------------------
(* Transaction manager (features/transaction.py) *)

\* TransactionState()
TransactionState ==
    [in_multi |-> FALSE, command_queue |-> <<>>, watched_keys |-> EmptyDict,
     error_state |-> FALSE]

\* the outcome of one TransactionManager call: the per-connection states,
\* the storage, the reply and the number of queued commands that were run
TxnOut(cs, S, r, ran) == [cs |-> cs, S |-> S, r |-> r, ran |-> ran]

\* the reply None of queue_command: the command is not queued
NotQueued == Reply("none", 0, <<>>)

_get_or_create_state(cs, c) ==
    IF c \in DOMAIN cs THEN cs ELSE DictPut(cs, c, TransactionState)

_reset_state(cs, c) ==
    IF c \in DOMAIN cs THEN [cs EXCEPT ![c] = TransactionState] ELSE cs

cleanup_client(cs, c) == DictPop(cs, c)

is_in_transaction(cs, c) == c \in DOMAIN cs /\ cs[c].in_multi

\* TransactionManager.watch(connection, key): records Storage._version.get(key, 0)
watch(cs, S, c, key) ==
    The({ IF cs1[c].in_multi THEN TxnOut(cs1, S, error("ERR"), 0)
          ELSE TxnOut([cs1 EXCEPT ![c].watched_keys = DictPut(@, key, DictGet(S.version, key, 0))],
                      S, RESP_OK, 0)
          : cs1 \in {_get_or_create_state(cs, c)} })

unwatch(cs, S, c) ==
    IF c \in DOMAIN cs
    THEN TxnOut([cs EXCEPT ![c].watched_keys = EmptyDict], S, RESP_OK, 0)
    ELSE TxnOut(cs, S, RESP_OK, 0)

multi(cs, S, c) ==
    The({ IF cs1[c].in_multi THEN TxnOut(cs1, S, error("ERR"), 0)
          ELSE TxnOut([cs1 EXCEPT ![c].in_multi = TRUE,
                                  ![c].command_queue = <<>>,
                                  ![c].error_state = FALSE], S, RESP_OK, 0)
          : cs1 \in {_get_or_create_state(cs, c)} })

\* TransactionManager.queue_command(connection, cmd, args, router)
queue_command(cs, S, c, cmd) ==
    IF ~is_in_transaction(cs, c) THEN TxnOut(cs, S, NotQueued, 0)
    ELSE IF cmd.op \in {"WATCH", "MULTI"}
         THEN TxnOut([cs EXCEPT ![c].error_state = TRUE], S, error("ERR"), 0)
    ELSE IF ~get_command_info(cmd)
         THEN TxnOut([cs EXCEPT ![c].error_state = TRUE], S, error("ERR"), 0)
    ELSE TxnOut([cs EXCEPT ![c].command_queue = Append(@, cmd)], S, RESP_QUEUED, 0)

\* the loop of exec over command_queue: each command through
\* CommandRouter.execute, its reply appended to results
\* the loop of exec leaving at the first command that fails
RECURSIVE RunQueue_until_error(_, _, _, _)
RunQueue_until_error(S, queue, results, t) ==
    IF queue = <<>> THEN Out(S, results)
    ELSE The({ IF o.r.kind \in {"ERR", "WRONGTYPE", "OOM"}
               THEN Out(o.S, Append(results, o.r))
               ELSE RunQueue_until_error(o.S, Tail(queue), Append(results, o.r), t)
               : o \in {execute(S, Head(queue), t)} })

RECURSIVE RunQueue(_, _, _, _)
RunQueue(S, queue, results, t) ==
    IF queue = <<>> THEN Out(S, results)
    ELSE The({ RunQueue(o.S, Tail(queue),
                        Append(results, IF o.r = IndexError THEN error("ERR") ELSE o.r), t)
               : o \in {execute(S, Head(queue), t)} })

\* some watched key's version counter differs from the one recorded by WATCH
WatchConflict(state, S) ==
    \E key \in DOMAIN state.watched_keys :
        DictGet(S.version, key, 0) # state.watched_keys[key]

\* exec with error_state examined before the watched keys
exec_error_state_first(cs, S, c, t) ==
    IF ~is_in_transaction(cs, c) THEN TxnOut(cs, S, error("ERR"), 0)
    ELSE IF cs[c].error_state
         THEN TxnOut(_reset_state(cs, c), S, error("EXECABORT"), 0)
    ELSE IF WatchConflict(cs[c], S)
         THEN TxnOut(_reset_state(cs, c), S, RESP_NULL_ARRAY, 0)
    ELSE The({ TxnOut(_reset_state(cs, c), o.S, Reply("array", Len(o.r), o.r),
                      Len(cs[c].command_queue))
               : o \in {RunQueue(S, cs[c].command_queue, <<>>, t)} })

\* TransactionManager.exec(connection, command_router)
exec(cs, S, c, t) ==
    IF ~is_in_transaction(cs, c) THEN TxnOut(cs, S, error("ERR"), 0)
    ELSE IF WatchConflict(cs[c], S)
         THEN TxnOut(_reset_state(cs, c), S, RESP_NULL_ARRAY, 0)
    ELSE IF cs[c].error_state
         THEN TxnOut(_reset_state(cs, c), S, error("EXECABORT"), 0)
    ELSE The({ TxnOut(_reset_state(cs, c), o.S, Reply("array", Len(o.r), o.r),
                      Len(cs[c].command_queue))
               : o \in {RunQueue(S, cs[c].command_queue, <<>>, t)} })

discard(cs, S, c) ==
    IF ~is_in_transaction(cs, c) THEN TxnOut(cs, S, error("ERR"), 0)
    ELSE TxnOut(_reset_state(cs, c), S, RESP_OK, 0)

\* ConnectionHandler.execute_command: the transaction commands are taken
\* first, then a command is queued when the connection is in MULTI, and
\* otherwise it goes to the router
execute_command(cs, S, c, cmd, t) ==
    CASE cmd.op = "WATCH"   -> watch(cs, S, c, cmd.key)
      [] cmd.op = "UNWATCH" -> unwatch(cs, S, c)
      [] cmd.op = "MULTI"   -> multi(cs, S, c)
      [] cmd.op = "EXEC"    -> exec(cs, S, c, t)
      [] cmd.op = "DISCARD" -> discard(cs, S, c)
      [] OTHER ->
            IF is_in_transaction(cs, c) THEN queue_command(cs, S, c, cmd)
            ELSE The({ TxnOut(cs, o.S, o.r, 0) : o \in {execute(S, cmd, t)} })

-----------------------------------------------------------------------------
(* History variables and the bounds on a run *)

\* the deadline of key has been reached at time t
Dead(S, key, t) == key \in DOMAIN S.expires /\ t >= S.expires[key]

\* the keys of S that are present and whose deadline, if any, lies ahead
Live(S, t) == {k \in DOMAIN S.data : ~Dead(S, k, t)}

\* what the last command was, what it could see and what it answered
Last(op, conn, key, dead, live, r, conflict, ran) ==
    [op |-> op, conn |-> conn, key |-> key, dead |-> dead, live |-> live,
     r |-> r, conflict |-> conflict, ran |-> ran]

NoLast == Last("", "", "", FALSE, 0, RESP_OK, FALSE, 0)

\* the storage stays within the bounds of the model
InBounds(S) ==
    /\ \A k \in DOMAIN S.version : S.version[k] <= MaxVersion
    /\ \A k \in DOMAIN S.data : Len(S.data[k].items) <= MaxList

EmptyStorage ==
    [data |-> EmptyDict, types |-> EmptyDict, expires |-> EmptyDict,
     version |-> EmptyDict, heap |-> {}]

-----------------------------------------------------------------------------
(* Spec: the keyspace under single commands and the passing of time *)

\* no command in hand
NoCmd == Cmd("", "", "", 0)

\* a connection just accepted: its handler waits in read_command
NewConn == [pc |-> "read", inbuf |-> <<>>, pbuf |-> <<>>, cur |-> NoCmd, todo |-> {}, sent |-> 0]

\* no request stream, no snapshot file and no save in progress
NoWire == [stream |-> <<>>, rest |-> <<>>, out |-> <<>>, mode |-> "idle", feeds |-> 0]
NoDisk ==
    [live |-> NoFile, tmp |-> NoFile, pc |-> "idle", had |-> FALSE,
     saved |-> EmptyStorage, trip |-> FALSE, fault |-> FALSE,
     last_save |-> 0, changes_since_save |-> 0,
     todo |-> <<>>, parts |-> EmptyDict, insts |-> {}, stopped |-> FALSE]

\* a publish not in progress
NoPublish ==
    [channel |-> "", phase |-> "", pattern |-> "", ptodo |-> {}, seen |-> {}, size |-> 0,
     gone |-> FALSE, cur |-> "", recipients |-> {}, delivered |-> {}]

\* PubSubManager.__init__, and every connection's handler waiting in read_command
NewNet ==
    [channels |-> EmptyDict, patterns |-> EmptyDict,
     client_channels |-> EmptyDict, client_patterns |-> EmptyDict,
     closed |-> {}, pc |-> [c \in Conns |-> "read"], pub |-> [c \in Conns |-> NoPublish],
     reply |-> [c \in Conns |-> [n |-> -1, delivered |-> -1]],
     had |-> [c \in Conns |-> {}],
     password |-> "", authenticated |-> [c \in Conns |-> FALSE]]

InitIO ==
    /\ parser = NewParser
    /\ wire = NoWire
    /\ disk = NoDisk
    /\ net = NewNet

InitStore ==
    /\ storage = EmptyStorage
    /\ now = 0
    /\ client_state = EmptyDict
    /\ dirty = [c \in Conns |-> {}]
    /\ last = NoLast

InitSched ==
    /\ conns = [c \in Conns |-> NewConn]
    /\ channels = EmptyDict
    /\ sched = ""

Init == InitStore /\ InitSched /\ InitIO

\* one command, run to completion by CommandRouter.execute
Run(cmd) ==
    \E o \in {execute(storage, cmd, now)} :
       /\ InBounds(o.S)
       /\ storage' = o.S
       /\ last' = Last(cmd.op, "", cmd.key, Dead(storage, cmd.key, now),
                       Cardinality(Live(storage, now)), o.r, FALSE, 0)
       /\ UNCHANGED <<now, client_state, dirty, schedVars, ioVars>>

CmdSet ==
    \E k \in Keys, px \in {0, 1} :
        /\ Run(Cmd("SET", k, "", px))

CmdGet ==
    \E k \in Keys :
        /\ Run(Cmd("GET", k, "", 0))

CmdDel ==
    \E k \in Keys :
        /\ Run(Cmd("DEL", k, "", 0))

CmdExists ==
    \E k \in Keys :
        /\ Run(Cmd("EXISTS", k, "", 0))

CmdType ==
    \E k \in Keys :
        /\ Run(Cmd("TYPE", k, "", 0))

CmdPttl ==
    \E k \in Keys :
        /\ Run(Cmd("PTTL", k, "", 0))

CmdPexpire ==
    \E k \in Keys :
        /\ Run(Cmd("PEXPIRE", k, "", 1))

CmdKeys ==
    /\ Run(Cmd("KEYS", "", "", 0))

CmdDbsize ==
    /\ Run(Cmd("DBSIZE", "", "", 0))

CmdRename ==
    \E k \in Keys : \E k2 \in Keys \ {k} :
        /\ Run(Cmd("RENAME", k, k2, 0))

CmdFlushdb ==
    /\ Run(Cmd("FLUSHDB", "", "", 0))

CmdSetbit ==
    \E k \in Keys :
        /\ Run(Cmd("SETBIT", k, "", 0))

CmdRpush ==
    \E k \in Keys :
        /\ Run(Cmd("RPUSH", k, "", 0))

CmdLpop ==
    \E k \in Keys :
        /\ Run(Cmd("LPOP", k, "", 0))

CmdLlen ==
    \E k \in Keys :
        /\ Run(Cmd("LLEN", k, "", 0))

CmdXadd ==
    \E k \in Keys, id \in 1..MaxList :
        /\ Run(Cmd("XADD", k, "", id))

\* time.ticks_ms() advances by a millisecond
Tick ==
    /\ now < MaxNow
    /\ now' = now + 1
    /\ last' = NoLast
    /\ UNCHANGED <<storage, client_state, dirty, schedVars, ioVars>>

Next ==
    \/ CmdSet \/ CmdGet \/ CmdDel \/ CmdExists \/ CmdType \/ CmdPttl
    \/ CmdPexpire \/ CmdKeys \/ CmdDbsize \/ CmdRename \/ CmdFlushdb
    \/ CmdSetbit \/ CmdRpush \/ CmdLpop \/ CmdLlen \/ CmdXadd \/ Tick

Spec == Init /\ [][Next]_vars

-----------------------------------------------------------------------------
(* SpecTxn: WATCH / MULTI / EXEC on connection c1 while c2 issues commands *)

\* the connections that use transactions, the keys they watch, the commands
\* they send between MULTI and EXEC or on their own, and the commands the
\* other connections send
TxnConns == {"c1"}
WatchKeys == {"a"}
QueueCmds == {Cmd("SET", "a", "", 0), Cmd("GET", "a", "", 0), Cmd("NOSUCH", "", "", 0)}
OtherCmds ==
    {Cmd("SET", "a", "", 0), Cmd("SET", "a", "", 1), Cmd("DEL", "a", "", 0),
     Cmd("GET", "a", "", 0), Cmd("RPUSH", "a", "", 0), Cmd("RENAME", "a", "b", 0),
     Cmd("FLUSHDB", "", "", 0)}

TxnOps == {"WATCH", "UNWATCH", "MULTI", "EXEC", "DISCARD"}

\* key k was mutated between S and S2: its value or its version counter differs
Mutated(S, S2, k) ==
    \/ DictGet(S.data, k, NoValue) # DictGet(S2.data, k, NoValue)
    \/ DictGet(S.version, k, 0) # DictGet(S2.version, k, 0)

WatchedBy(cs, c) == IF c \in DOMAIN cs THEN DOMAIN cs[c].watched_keys ELSE {}

\* connection c sends cmd and ConnectionHandler.execute_command answers it.
\* dirty[d] collects the keys d watches that a command of another connection
\* mutated since d's WATCH of them.
Send(c, cmd) ==
    \E o \in {execute_command(client_state, storage, c, cmd, now)} :
       /\ InBounds(o.S)
       /\ \A d \in DOMAIN o.cs : Len(o.cs[d].command_queue) <= MaxQueue
       /\ storage' = o.S
       /\ client_state' = o.cs
       /\ dirty' = [d \in Conns |->
             IF d = c
             THEN {k \in dirty[c] : /\ k \in WatchedBy(o.cs, c)
                                    /\ ~(cmd.op = "WATCH" /\ cmd.key = k /\ o.r.kind = "ok")}
             ELSE dirty[d] \cup {k \in WatchedBy(client_state, d) : Mutated(storage, o.S, k)}]
       /\ last' = IF cmd.op \in TxnOps \/ is_in_transaction(client_state, c)
                  THEN Last(cmd.op, c, cmd.key, FALSE, 0, o.r,
                            cmd.op = "EXEC" /\ is_in_transaction(client_state, c)
                                /\ dirty[c] # {},
                            o.ran)
                  ELSE NoLast
       /\ UNCHANGED <<now, schedVars, ioVars>>

TxnWatch ==
    \E c \in TxnConns, k \in WatchKeys :
        /\ Send(c, Cmd("WATCH", k, "", 0))

TxnUnwatch ==
    \E c \in TxnConns :
        /\ Send(c, Cmd("UNWATCH", "", "", 0))

TxnMulti ==
    \E c \in TxnConns :
        /\ Send(c, Cmd("MULTI", "", "", 0))

TxnExec ==
    \E c \in TxnConns :
        /\ Send(c, Cmd("EXEC", "", "", 0))

TxnDiscard ==
    \E c \in TxnConns :
        /\ Send(c, Cmd("DISCARD", "", "", 0))

\* a data command of a transaction user: queued inside MULTI, run otherwise
TxnCommand ==
    \E c \in TxnConns, cmd \in QueueCmds :
        /\ Send(c, cmd)

\* a data command of another connection
OtherCommand ==
    \E c \in Conns \ TxnConns, cmd \in OtherCmds :
        /\ Send(c, cmd)

TxnTick ==
    /\ now < MaxNow
    /\ now' = now + 1
    /\ last' = NoLast
    /\ UNCHANGED <<storage, client_state, dirty, schedVars, ioVars>>

NextTxn ==
    \/ TxnWatch \/ TxnUnwatch \/ TxnMulti \/ TxnExec \/ TxnDiscard
    \/ TxnCommand \/ OtherCommand \/ TxnTick

SpecTxn == Init /\ [][NextTxn]_vars

\* C1: when a command of another connection mutated a watched key between the
\* WATCH and the EXEC, EXEC replies the null array and runs no queued command.
C1_ExecAbortsOnWatchedMutation ==
    (last.op = "EXEC" /\ last.conflict) => (last.r.kind = "nullarray" /\ last.ran = 0)

-----------------------------------------------------------------------------
(* Properties of the keyspace, checked under Spec *)

\* the version counter of key k, 0 when Storage._version has no entry for it
Version(S, k) == DictGet(S.version, k, 0)

\* C4: over any sequence of operations (create, overwrite, in-place mutation,
\* rename, delete, expiry, flush) the version counter of every key never
\* decreases and is never reset or removed.
C4_VersionNeverDecreases ==
    [][\A k \in Keys : Version(storage', k) >= Version(storage, k)]_vars

\* C5: once the clock has reached a key's deadline every read command reports
\* the key absent: GET nil, EXISTS 0, TYPE none, PTTL -2, LLEN 0, and KEYS and
\* DBSIZE list and count the live keys only.
C5_ExpiredKeyReadAsAbsent ==
    /\ (last.dead /\ last.op = "GET") => last.r.kind = "nil"
    /\ (last.dead /\ last.op = "EXISTS") => last.r.n = 0
    /\ (last.dead /\ last.op = "TYPE") => last.r.n = -1
    /\ (last.dead /\ last.op = "PTTL") => last.r.n = TTL_NOT_EXISTS
    /\ (last.dead /\ last.op = "LLEN") => last.r.n = 0
    /\ last.op \in {"KEYS", "DBSIZE"} => last.r.n = last.live

\* C10: after any command sequence the keyspace holds at most MAX_KEYS keys.
C10_KeyCountWithinCap == Cardinality(DOMAIN storage.data) <= MAX_KEYS

-----------------------------------------------------------------------------
(* Active expiry (storage/expiry.py) and pub/sub (features/pubsub.py) *)

\* ExpiryManager.expire_keys: heap entries leave in deadline order; a stale
\* entry is dropped, an expired key is deleted with Storage.delete, and the
\* first entry still ahead of the clock goes back and ends the pass
RECURSIVE expire_keys(_, _)
expire_keys(S, t) ==
    IF S.heap = {} THEN S
    ELSE The({ IF e[2] \notin DOMAIN S.expires \/ DictGet(S.expires, e[2], -1) # e[1]
               THEN expire_keys([S EXCEPT !.heap = @ \ {e}], t)
               ELSE IF ticks_diff(e[1], t) <= 0
                    THEN expire_keys(delete([S EXCEPT !.heap = @ \ {e}], e[2]).S, t)
               ELSE S
               : e \in {CHOOSE x \in S.heap : \A y \in S.heap : x[1] <= y[1]} })

\* PubSubManager.subscribe(connection, channel)
subscribe(chs, c, channel) == DictPut(chs, channel, DictGet(chs, channel, {}) \cup {c})

\* PubSubManager.is_subscribed(connection)
is_subscribed(chs, c) == \E channel \in DOMAIN chs : c \in chs[channel]

\* ConnectionHandler.PUBSUB_ALLOWED_CMDS
PUBSUB_ALLOWED_CMDS == {"SUBSCRIBE", "UNSUBSCRIBE", "PSUBSCRIBE", "PUNSUBSCRIBE", "PING", "QUIT"}

-----------------------------------------------------------------------------
(* The four registries of PubSubManager and the life of a connection        *)
(* (features/pubsub.py, network/connection.py)                              *)

Channels == {"ch"}
Patterns == {"c*", "x*"}

\* _glob_match(pattern, channel) on the patterns and channels above
_glob_match(pattern, channel) == <<pattern, channel>> \in {<<"c*", "ch">>}

\* d[key].discard(x), and `del d[key]` when the set is left empty
Discard(d, key, x) ==
    IF key \notin DOMAIN d THEN d
    ELSE IF d[key] \ {x} = {} THEN DictPop(d, key)
    ELSE DictPut(d, key, d[key] \ {x})

\* the same for every key of ks
DiscardEach(d, ks, x) ==
    [k \in {k \in DOMAIN d : k \notin ks \/ d[k] \ {x} # {}} |->
        IF k \in ks THEN d[k] \ {x} ELSE d[k]]

\* PubSubManager.subscribe(connection, channel): both registries
subscribe_channel(N, c, channel) ==
    [N EXCEPT !.channels = subscribe(@, c, channel),
              !.client_channels = subscribe(@, channel, c)]

\* an unsubscribe that leaves the connection's own set of channels alone
unsubscribe_forward(N, c, channel) ==
    [N EXCEPT !.channels = Discard(@, channel, c)]

\* PubSubManager.unsubscribe(connection, channel)
unsubscribe(N, c, channel) ==
    [N EXCEPT !.channels = Discard(@, channel, c),
              !.client_channels = Discard(@, c, channel)]

\* PubSubManager.psubscribe(connection, pattern)
psubscribe(N, c, pattern) ==
    [N EXCEPT !.patterns = subscribe(@, c, pattern),
              !.client_patterns = subscribe(@, pattern, c)]

\* PubSubManager.punsubscribe(connection, pattern)
punsubscribe(N, c, pattern) ==
    [N EXCEPT !.patterns = Discard(@, pattern, c),
              !.client_patterns = Discard(@, c, pattern)]

\* an unsubscribe_all that forgets the pattern registries
unsubscribe_all_channels(N, c) ==
    [N EXCEPT !.channels = DiscardEach(@, DictGet(N.client_channels, c, {}), c),
              !.client_channels = DictPop(@, c)]

\* PubSubManager.unsubscribe_all(connection)
unsubscribe_all(N, c) ==
    [N EXCEPT !.channels = DiscardEach(@, DictGet(N.client_channels, c, {}), c),
              !.client_channels = DictPop(@, c),
              !.patterns = DiscardEach(@, DictGet(N.client_patterns, c, {}), c),
              !.client_patterns = DictPop(@, c)]

\* PubSubManager.is_subscribed(connection) on the client registries
in_pubsub_mode(N, c) == c \in DOMAIN N.client_channels \/ c \in DOMAIN N.client_patterns

\* PubSubManager._match_patterns(channel)
_match_patterns(N, channel) == {pattern \in DOMAIN N.patterns : _glob_match(pattern, channel)}

\* the set object a loop of publish iterates: the registry's set, which stays
\* behind empty once unsubscribe has deleted its registry entry
IterSet(N, p) ==
    IF p.gone THEN {}
    ELSE IF p.phase = "direct" THEN DictGet(N.channels, p.channel, {})
    ELSE DictGet(N.patterns, p.pattern, {})

\* publish enters `for conn in self._channels[channel]` or
\* `for conn in self._patterns[pattern]`; a key not in the registry is skipped
BeginLoop(N, p, phase, pattern) ==
    The({ [q EXCEPT !.size = Cardinality(IterSet(N, q))]
          : q \in {[p EXCEPT !.phase = phase, !.pattern = pattern, !.seen = {},
                             !.gone = IF phase = "direct" THEN p.channel \notin DOMAIN N.channels
                                      ELSE pattern \notin DOMAIN N.patterns]} })

\* a change of the registries from N to N1 while publishers are suspended in
\* a write: a publisher whose iterated set lost its registry entry keeps the
\* emptied set
Touch(N, N1) ==
    [N1 EXCEPT !.pub = [c \in Conns |->
        IF N.pc[c] = "write"
           /\ \/ N.pub[c].phase = "direct" /\ N.pub[c].channel \in DOMAIN N.channels
                                           /\ N.pub[c].channel \notin DOMAIN N1.channels
              \/ N.pub[c].phase = "pattern" /\ N.pub[c].pattern \in DOMAIN N.patterns
                                            /\ N.pub[c].pattern \notin DOMAIN N1.patterns
        THEN [N.pub[c] EXCEPT !.gone = TRUE] ELSE N.pub[c]]]

\* what the connection holds when its handler ends
Holds(N, cs, c) ==
    (IF c \in DOMAIN N.client_channels THEN {"channel"} ELSE {}) \cup
    (IF c \in DOMAIN N.client_patterns THEN {"pattern"} ELSE {}) \cup
    (IF c \in DOMAIN cs THEN {"txn"} ELSE {})

\* the finally block of handle_client on the pub/sub side, then conn.close()
Ended(N, cs, c) ==
    Touch(N, [unsubscribe_all(N, c) EXCEPT !.pc[c] = "ended", !.closed = @ \cup {c},
                                            !.pub[c] = NoPublish, !.had[c] = Holds(N, cs, c)])

-----------------------------------------------------------------------------
(* SpecSched: the handler tasks of the connections and the expiry loop on   *)
(* one cooperative event loop.  A task runs from one await to the next.     *)

\* the frames the client of a connection sends
SchedCmds(c) ==
    IF c \in TxnConns
    THEN {Cmd("MULTI", "", "", 0), Cmd("SET", "a", "", 0), Cmd("EXEC", "", "", 0),
          Cmd("PUBLISH", "ch", "", 0)}
    ELSE {Cmd("SUBSCRIBE", "ch", "", 0), Cmd("PEXPIREAT", "a", "", 1)}

\* a handler that would also yield between entering a command and its reply
AwaitingAlsoInCommand(p) == p \in {"read", "drain", "publish", "command"}

\* the handler positions at which the task is suspended in an await:
\* reader.read in read_command, writer.drain in write_response when the reply
\* is written, and the write_response to a subscriber inside publish
Awaiting(p) == p \in {"read", "drain", "publish"}

\* the handler positions inside execute_command
InCommand(p) == p \in {"command", "publish"}

\* the event loop can resume task x: every other task is suspended in an await
CanRun(x) == \A d \in Conns \ {x} : Awaiting(conns[d].pc)

\* the client of c writes one request frame to its socket
ClientSend ==
    \E c \in Conns : \E cmd \in SchedCmds(c) :
        /\ conns[c].sent < MaxFrames
        /\ conns' = [conns EXCEPT ![c].inbuf = Append(@, cmd), ![c].sent = @ + 1]
        /\ UNCHANGED <<storeVars, channels, sched, ioVars>>

\* a parser that would put the bytes just read in front of the ones it kept
Buffered_new_first(pbuf, inbuf) == inbuf \o pbuf

\* RESPParser.feed: the bytes just read go behind the ones the parser kept
Buffered(pbuf, inbuf) == pbuf \o inbuf

\* read_command: reader.read returns what the socket holds, the parser is fed
\* and parse() is called once; the frames behind the first stay in the parser
Read ==
    \E c \in Conns :
        /\ conns[c].pc = "read"
        /\ CanRun(c)
        /\ conns[c].inbuf # <<>>
        /\ conns' = [conns EXCEPT ![c].pc = "command",
                                  ![c].cur = Head(Buffered(conns[c].pbuf, conns[c].inbuf)),
                                  ![c].pbuf = Tail(Buffered(conns[c].pbuf, conns[c].inbuf)),
                                  ![c].inbuf = <<>>]
        /\ sched' = c
        /\ UNCHANGED <<storeVars, channels, ioVars>>

\* execute_command on the command in hand, up to its reply or its first await
Execute ==
    \E c \in Conns :
        /\ conns[c].pc = "command"
        /\ CanRun(c)
        /\ sched' = c
        /\ UNCHANGED <<now, dirty, last, ioVars>>
        /\ IF is_subscribed(channels, c) /\ conns[c].cur.op \notin PUBSUB_ALLOWED_CMDS
           THEN /\ conns' = [conns EXCEPT ![c].pc = "drain"]
                /\ UNCHANGED <<storage, client_state, channels>>
           ELSE IF conns[c].cur.op = "SUBSCRIBE" /\ ~is_in_transaction(client_state, c)
           THEN /\ channels' = subscribe(channels, c, conns[c].cur.key)
                /\ conns' = [conns EXCEPT ![c].pc = "drain"]
                /\ UNCHANGED <<storage, client_state>>
           ELSE IF conns[c].cur.op = "PUBLISH" /\ ~is_in_transaction(client_state, c)
           THEN /\ IF DictGet(channels, conns[c].cur.key, {}) = {}
                   THEN conns' = [conns EXCEPT ![c].pc = "drain"]
                   ELSE \E d \in channels[conns[c].cur.key] :
                           conns' = [conns EXCEPT ![c].pc = "publish",
                                                  ![c].todo = channels[conns[c].cur.key] \ {d}]
                /\ UNCHANGED <<storage, client_state, channels>>
           ELSE \E o \in {execute_command(client_state, storage, c, conns[c].cur, now)} :
                /\ InBounds(o.S)
                /\ storage' = o.S
                /\ client_state' = o.cs
                /\ conns' = [conns EXCEPT ![c].pc = "drain"]
                /\ UNCHANGED channels

\* publish resumes after the write to one subscriber: the next subscriber is
\* written to, or publish returns and the reply is written
PublishResume ==
    \E c \in Conns :
        /\ conns[c].pc = "publish"
        /\ CanRun(c)
        /\ sched' = c
        /\ IF conns[c].todo = {}
           THEN conns' = [conns EXCEPT ![c].pc = "drain"]
           ELSE \E d \in conns[c].todo : conns' = [conns EXCEPT ![c].todo = @ \ {d}]
        /\ UNCHANGED <<storeVars, channels, ioVars>>

\* write_response resumes after writer.drain; handle_client loops to read_command
WriteDone ==
    \E c \in Conns :
        /\ conns[c].pc = "drain"
        /\ CanRun(c)
        /\ sched' = c
        /\ conns' = [conns EXCEPT ![c].pc = "read", ![c].cur = NoCmd]
        /\ UNCHANGED <<storeVars, channels, ioVars>>

\* run_expiry_loop resumes from its sleep and runs expire_keys
ExpiryRun ==
    /\ CanRun("expiry")
    /\ sched' = "expiry"
    /\ storage' = expire_keys(storage, now)
    /\ UNCHANGED <<now, client_state, dirty, last, conns, channels, ioVars>>

SchedTick ==
    /\ now < MaxNow
    /\ now' = now + 1
    /\ UNCHANGED <<storage, client_state, dirty, last, schedVars, ioVars>>

NextSched ==
    \/ ClientSend \/ Read \/ Execute \/ PublishResume \/ WriteDone
    \/ ExpiryRun \/ SchedTick

SpecSched == Init /\ [][NextSched]_vars

-----------------------------------------------------------------------------
(* Properties of the event loop, checked under SpecSched *)

\* C2: from the moment a handler enters EXEC until EXEC has its reply, the
\* event loop resumes no other task: no other connection's command runs and
\* the expiry loop takes no step.
C2_ExecRunsAlone ==
    [][\A c \in Conns :
          (conns[c].pc = "command" /\ conns[c].cur.op = "EXEC") => sched' = c]_vars

\* an EXEC with queued commands is in progress while another connection has
\* a request waiting in its socket
C2_Witness ==
    \E c \in Conns :
        /\ conns[c].pc = "command" /\ conns[c].cur.op = "EXEC"
        /\ is_in_transaction(client_state, c)
        /\ client_state[c].command_queue # <<>>
        /\ \E d \in Conns \ {c} : conns[d].inbuf # <<>>

\* C3: the execution of every single command, PUBLISH included, contains no
\* suspension point: while a handler is inside execute_command the event loop
\* resumes no other task.
C3_CommandRunsWithoutSuspension ==
    [][\A c \in Conns : InCommand(conns[c].pc) => sched' = c]_vars

\* C7: every complete frame received is executed without waiting for further
\* bytes: a handler never blocks on an empty socket while its parser holds a
\* complete frame.
C7_NoFrameLeftInParser ==
    \A c \in Conns :
        (conns[c].pc = "read" /\ conns[c].inbuf = <<>>) => conns[c].pbuf = <<>>

-----------------------------------------------------------------------------
(* SpecParser: a request stream reaches the parser in chunks *)

\* the request *1 CR LF $1 CR LF <byte> CR LF
Request(byte) == <<42, 49, 13, 10, 36, 49, 13, 10, byte, 13, 10>>

MaxRequests == 2
MaxChunks == 3
Payloads == {97, 49}

RECURSIVE StreamsOf(_)
StreamsOf(n) ==
    IF n = 0 THEN {<<>>}
    ELSE {Request(b) \o s : b \in Payloads, s \in StreamsOf(n - 1)}

Streams == UNION {StreamsOf(n) : n \in 1 .. MaxRequests}

InitParser ==
    /\ InitStore
    /\ InitSched
    /\ parser = NewParser
    /\ disk = NoDisk
    /\ net = NewNet
    /\ \E s \in Streams :
          wire = [stream |-> s, rest |-> s, out |-> <<>>, mode |-> "feed", feeds |-> 0]

\* the socket delivers the next chunk, the whole rest when it is the last one
Feed ==
    /\ wire.mode = "feed"
    /\ wire.rest # <<>>
    /\ \E n \in 1 .. Len(wire.rest) :
          /\ wire.feeds + 1 >= MaxChunks => n = Len(wire.rest)
          /\ parser' = feed(parser, SubSeq(wire.rest, 1, n))
          /\ wire' = [wire EXCEPT !.rest = SubSeq(@, n + 1, Len(@)),
                                  !.feeds = @ + 1, !.mode = "parse"]
    /\ UNCHANGED <<storeVars, schedVars, disk, net>>

\* the reader calls parse: a frame is collected and parse is called again,
\* None sends the reader back to the socket, an error ends the connection
Parse ==
    /\ wire.mode = "parse"
    /\ \E s \in {parse(parser)} :
          /\ parser' = s.p
          /\ wire' = [wire EXCEPT
                        !.out = IF s.kind = "none" THEN @ ELSE Append(@, Frame(s)),
                        !.mode = IF s.kind = "frame" THEN "parse"
                                 ELSE IF s.kind = "error" THEN "failed"
                                 ELSE IF wire.rest = <<>> THEN "done" ELSE "feed"]
    /\ UNCHANGED <<storeVars, schedVars, disk, net>>

NextParser == Feed \/ Parse

SpecParser == InitParser /\ [][NextParser]_vars

\* C6: once the whole stream is fed and parsed, the frames collected are those
\* of the same stream fed in one chunk, however the stream was split.
C6_SameFramesForEveryChunking ==
    wire.mode \in {"done", "failed"} => wire.out = Drain(feed(NewParser, wire.stream), <<>>)

-----------------------------------------------------------------------------
(* SpecSnap: commands, save step by step, faults, load *)

SnapCmds ==
    {Cmd("SET", "a", "", 0), Cmd("SET", "a", "", 1), Cmd("RPUSH", "a", "", 0),
     Cmd("HSET", "a", "f", 0), Cmd("HSET", "a", "g", 0), Cmd("SADD", "a", "", 49),
     Cmd("SADD", "a", "", 120), Cmd("ZADD", "a", "", 1), Cmd("XADD", "a", "", 1),
     Cmd("DEL", "a", "", 0)}

\* what the read commands answer for every key
Reads(S, t) ==
    [k \in Keys |-> <<get(S, k, t).r, type(S, k, t).r, pttl(S, k, t).r, llen(S, k, t).r,
                      hget(S, k, "f", t).r, sismember(S, k, <<120>>, t).r>>]

\* a write command between two saves
SnapCommand ==
    \E cmd \in SnapCmds : \E o \in {execute(storage, cmd, now)} :
        /\ disk.pc = "idle"
        /\ InBounds(o.S)
        /\ storage' = o.S
        /\ disk' = [disk EXCEPT !.trip = FALSE]
        /\ UNCHANGED <<now, client_state, dirty, last, schedVars, parser, wire, net>>

\* save: the keys are encoded; an encoder that raises makes save return False,
\* else <path>.tmp is opened for writing
SaveBegin ==
    /\ disk.pc = "idle"
    /\ \E e \in {EncodeKeys(storage)} :
          /\ disk' = [disk EXCEPT !.pc = IF e.ok THEN "write" ELSE "idle",
                                  !.tmp = IF e.ok THEN File("partial", e.recs) ELSE @,
                                  !.had = disk.live.state = "full",
                                  !.saved = storage, !.trip = TRUE, !.fault = FALSE]
          /\ last' = IF e.ok THEN last
                     ELSE Last("SAVE", "", "", FALSE, 0, False, FALSE, 0)
    /\ UNCHANGED <<storage, now, client_state, dirty, schedVars, parser, wire, net>>

\* the snapshot is written to <path>.tmp and the file closed
SaveWrite ==
    /\ disk.pc = "write"
    /\ disk' = [disk EXCEPT !.pc = "remove", !.tmp = File("full", @.recs)]
    /\ UNCHANGED <<storeVars, schedVars, parser, wire, net>>

\* os.remove(path)
SaveRemove ==
    /\ disk.pc = "remove"
    /\ disk' = [disk EXCEPT !.pc = "rename", !.live = NoFile]
    /\ UNCHANGED <<storeVars, schedVars, parser, wire, net>>

\* os.rename(path.tmp, path); save returns True
SaveRename ==
    /\ disk.pc = "rename"
    /\ disk' = [disk EXCEPT !.pc = "idle", !.live = disk.tmp, !.tmp = NoFile]
    /\ last' = Last("SAVE", "", "", FALSE, 0, True, FALSE, 0)
    /\ UNCHANGED <<storage, now, client_state, dirty, schedVars, parser, wire, net>>

\* the write or the rename raises OSError, or save_async is cancelled at an
\* await of its write loop: the save ends there
SaveError ==
    /\ disk.pc \in {"write", "rename"}
    /\ disk' = [disk EXCEPT !.pc = "idle", !.fault = TRUE]
    /\ last' = Last("SAVE", "", "", FALSE, 0, False, FALSE, 0)
    /\ UNCHANGED <<storage, now, client_state, dirty, schedVars, parser, wire, net>>

\* power is lost during a save: the keyspace in RAM is gone, the files stay
Crash ==
    /\ disk.pc \in {"write", "remove", "rename"}
    /\ disk' = [disk EXCEPT !.pc = "down", !.fault = TRUE]
    /\ storage' = EmptyStorage
    /\ last' = Last("CRASH", "", "", FALSE, 0, False, FALSE, 0)
    /\ UNCHANGED <<now, client_state, dirty, schedVars, parser, wire, net>>

\* clear(); load(), also what start-up does after a crash
Load ==
    /\ disk.pc \in {"idle", "down"}
    /\ \E o \in {load(flush(storage).S, disk.live)} :
          /\ storage' = o.S
          /\ last' = Last("LOAD", "", "", FALSE, 0, o.r, FALSE, 0)
    /\ disk' = [disk EXCEPT !.pc = "idle"]
    /\ UNCHANGED <<now, client_state, dirty, schedVars, parser, wire, net>>

SnapTick ==
    /\ now < MaxNow
    /\ now' = now + 1
    /\ UNCHANGED <<storage, client_state, dirty, last, schedVars, ioVars>>

NextSnap ==
    \/ SnapCommand \/ SaveBegin \/ SaveWrite \/ SaveRemove \/ SaveRename
    \/ SaveError \/ Crash \/ Load \/ SnapTick

SpecSnap == Init /\ [][NextSnap]_vars

\* C8: after a save was interrupted by a crash, an I/O error or a cancellation,
\* the live path holds a whole snapshot if it held one when the save began.
C8_LivePathCompleteAfterInterruptedSave ==
    (disk.fault /\ disk.had) => disk.live.state = "full"

\* C9: save() succeeds on every keyspace the commands build, and after
\* save(); clear(); load() every read command answers what it answered before.
C9_SaveSucceedsAndRoundTrips ==
    /\ (last.op = "SAVE" /\ ~disk.fault) => last.r = True
    /\ (last.op = "LOAD" /\ disk.trip /\ ~disk.fault)
          => Reads(storage, now) = Reads(disk.saved, now)

-----------------------------------------------------------------------------
(* SpecStr: string commands that rewrite a value, deadlines and the clock *)

\* the key the rewriting commands are sent to
StrKeys == {"a"}

\* plain SET, without EX / PX
StrSet ==
    \E k \in StrKeys :
        /\ Run(Cmd("SET", k, "", 0))

CmdAppend ==
    \E k \in StrKeys, v \in {<<>>, <<49>>} :
        /\ Run(Cmd("APPEND", k, "", v))

CmdSetrange ==
    \E k \in StrKeys, offset \in {0, 1} :
        /\ Run(Cmd("SETRANGE", k, "", offset))

CmdIncrby ==
    \E k \in StrKeys, increment \in {1, -1} :
        /\ Run(Cmd("INCRBY", k, "", increment))

CmdGetset ==
    \E k \in StrKeys :
        /\ Run(Cmd("GETSET", k, "", 0))

CmdGetex ==
    \E k \in StrKeys :
        /\ Run(Cmd("GETEX", k, "", 0))

\* MSETNX of one key or of two
CmdMsetnx ==
    \E k \in Keys : \E k2 \in (Keys \ {k}) \cup {""} :
        /\ Run(Cmd("MSETNX", k, k2, 0))

NextStr ==
    \/ StrSet \/ CmdPexpire \/ CmdAppend \/ CmdSetrange \/ CmdSetbit
    \/ CmdIncrby \/ CmdGetset \/ CmdGetex \/ CmdRpush \/ CmdDel \/ Tick

SpecStr == Init /\ [][NextStr]_vars

\* MSETNX among plain writes, deadlines and deletions
NextMsetnx == CmdSet \/ CmdPexpire \/ CmdMsetnx \/ CmdDel \/ Tick

SpecMsetnx == Init /\ [][NextMsetnx]_vars

\* key k is present with a deadline that lies ahead
HasDeadline(S, k, t) == k \in DOMAIN S.data /\ k \in DOMAIN S.expires /\ ~Dead(S, k, t)

\* C11: APPEND, SETRANGE, SETBIT, INCRBY (INCR, DECR, DECRBY), GETSET and GETEX
\* without an option, run on a key with a deadline ahead, leave that deadline
\* as it was; a plain SET on such a key removes the deadline.
C11_RewritesKeepDeadline ==
    [][\A k \in Keys :
          (HasDeadline(storage, k, now) /\ last'.key = k) =>
             /\ last'.op \in {"APPEND", "SETRANGE", "SETBIT", "INCRBY", "GETSET", "GETEX"}
                   => /\ k \in DOMAIN storage'.expires
                      /\ storage'.expires[k] = storage.expires[k]
             /\ last'.op = "SET" => k \notin DOMAIN storage'.expires]_vars

\* C12: an MSETNX that does not answer 1 (a key exists, or an error such as
\* the key-count limit) leaves the keyspace as it was: every read of every
\* key answers what it answered before.
C12_MsetnxAllOrNothing ==
    [][(last'.op = "MSETNX" /\ last'.r # integer(1))
          => Reads(storage', now) = Reads(storage, now)]_vars

-----------------------------------------------------------------------------
(* SpecType: one command of every data type against keys of every type *)

CmdHset ==
    \E k \in Keys :
        /\ Run(Cmd("HSET", k, "f", 0))

CmdSadd ==
    \E k \in Keys, m \in {49, 120} :
        /\ Run(Cmd("SADD", k, "", m))

CmdZadd ==
    \E k \in Keys :
        /\ Run(Cmd("ZADD", k, "", 1))

CmdXread ==
    \E k \in Keys :
        /\ Run(Cmd("XREAD", k, "", 0))

NextType ==
    \/ CmdSet \/ CmdGet \/ CmdAppend \/ CmdRpush \/ CmdLlen \/ CmdHset \/ CmdSadd
    \/ CmdZadd \/ CmdXadd \/ CmdXread \/ CmdDel \/ CmdRename \/ Tick

SpecType == Init /\ [][NextType]_vars

\* the type tag stored for key (no entry in _types stands for TYPE_STRING)
Tag(S, key) == DictGet(S.types, key, TYPE_STRING)

\* the type whose operations produce a value of this representation
Shape(v) ==
    CASE v.kind = "bytes" -> TYPE_STRING
      [] v.kind = "list" -> TYPE_LIST
      [] v.kind \in {"ziplist", "dict"} -> TYPE_HASH
      [] v.kind \in {"intset", "set"} -> TYPE_SET
      [] v.kind = "zset" -> TYPE_ZSET
      [] v.kind = "stream" -> TYPE_STREAM

\* the data type a command belongs to, -1 for the commands of no one type
OwnType(op) ==
    CASE op \in {"GET", "APPEND"} -> TYPE_STRING
      [] op \in {"RPUSH", "LLEN"} -> TYPE_LIST
      [] op = "HSET" -> TYPE_HASH
      [] op = "SADD" -> TYPE_SET
      [] op = "ZADD" -> TYPE_ZSET
      [] op \in {"XADD", "XREAD"} -> TYPE_STREAM
      [] OTHER -> -1

\* C13: a data-type command on a live key of another type answers WRONGTYPE
\* and changes nothing; after every command each key's tag is the type of
\* its value's representation; the tag of a live key that stays present
\* changes only under SET or RENAME, the commands that overwrite a key.
C13_TypeIntegrity ==
    [][/\ \A k \in DOMAIN storage'.data : Tag(storage', k) = Shape(storage'.data[k])
       /\ \A k \in Live(storage, now) :
             /\ (last'.key = k /\ OwnType(last'.op) >= 0 /\ OwnType(last'.op) # Tag(storage, k))
                   => (last'.r = WRONGTYPE /\ storage' = storage)
             /\ (k \in DOMAIN storage'.data /\ Tag(storage', k) # Tag(storage, k))
                   => last'.op \in {"SET", "RENAME"}]_vars

-----------------------------------------------------------------------------
(* SpecExp: deadlines, the clock and the background expiry loop.  The loop   *)
(* task sleeps and runs for ever and the clock advances, hence the weak      *)
(* fairness of ExpiryRun and Tick; no client is obliged to send anything.    *)

CmdPexpireat ==
    \E k \in Keys, at \in 1 .. MaxNow :
        /\ Run(Cmd("PEXPIREAT", k, "", at))

NextExp ==
    \/ CmdSet \/ CmdPexpire \/ CmdPexpireat \/ CmdGet \/ CmdDel \/ ExpiryRun \/ Tick

SpecExp == Init /\ [][NextExp]_vars /\ WF_vars(ExpiryRun) /\ WF_vars(Tick)

\* key k is present and its deadline has been reached
Overdue(k) == k \in DOMAIN storage.data /\ Dead(storage, k, now)

\* C14: every key with a deadline has an entry in the expiry heap, and a key
\* whose deadline has been reached is removed (or given a new deadline) in
\* the end, by the expiry loop if by nothing else.
C14_OverdueKeyRemoved ==
    /\ [](\A k \in DOMAIN storage.data \cap DOMAIN storage.expires :
              <<storage.expires[k], k>> \in storage.heap)
    /\ \A k \in Keys : Overdue(k) ~> ~Overdue(k)

-----------------------------------------------------------------------------
(* SpecConn: connections subscribe, publish, open transactions and go away. *)
(* A handler runs from one await to the next; "iter" is the one position    *)
(* that is no await: publish between two writes.                            *)

\* the event loop can resume the handler of c, suspended in read_command
Idle(c) == net.pc[c] = "read" /\ \A d \in Conns \ {c} : net.pc[d] # "iter"

ConnSubscribe ==
    \E c \in Conns, channel \in Channels :
        /\ Idle(c) /\ ~is_in_transaction(client_state, c)
        /\ net' = Touch(net, subscribe_channel(net, c, channel))
        /\ UNCHANGED <<storeVars, schedVars, parser, wire, disk>>

ConnUnsubscribe ==
    \E c \in Conns, channel \in Channels :
        /\ Idle(c) /\ ~is_in_transaction(client_state, c)
        /\ net' = Touch(net, unsubscribe(net, c, channel))
        /\ UNCHANGED <<storeVars, schedVars, parser, wire, disk>>

ConnPsubscribe ==
    \E c \in Conns, pattern \in Patterns :
        /\ Idle(c) /\ ~is_in_transaction(client_state, c)
        /\ net' = Touch(net, psubscribe(net, c, pattern))
        /\ UNCHANGED <<storeVars, schedVars, parser, wire, disk>>

ConnPunsubscribe ==
    \E c \in Conns, pattern \in Patterns :
        /\ Idle(c) /\ ~is_in_transaction(client_state, c)
        /\ net' = Touch(net, punsubscribe(net, c, pattern))
        /\ UNCHANGED <<storeVars, schedVars, parser, wire, disk>>

\* WATCH a and MULTI: the transaction manager creates the connection's state
ConnTxn ==
    \E c \in Conns, op \in {"WATCH", "MULTI"} :
        /\ Idle(c) /\ ~in_pubsub_mode(net, c)
        /\ client_state' = execute_command(client_state, storage, c, Cmd(op, "a", "", 0), now).cs
        /\ UNCHANGED <<storage, now, dirty, last, schedVars, ioVars>>

\* PUBLISH channel message: publish starts its loop over the direct subscribers
PublishBegin ==
    \E c \in Conns, channel \in Channels :
        /\ Idle(c) /\ ~in_pubsub_mode(net, c) /\ ~is_in_transaction(client_state, c)
        /\ net' = [net EXCEPT !.pc[c] = "iter",
                              !.reply[c] = [n |-> -1, delivered |-> -1],
                              !.pub[c] = BeginLoop(net, [NoPublish EXCEPT !.channel = channel],
                                                   "direct", "")]
        /\ UNCHANGED <<storeVars, schedVars, parser, wire, disk>>

\* the loop of publish takes its next connection.  A set that changed size
\* under the iterator raises RuntimeError in CPython, which ends the handler,
\* and goes unnoticed in MicroPython.  A closed connection is "written" to
\* without an await; after the last connection the patterns follow, and after
\* the last pattern publish returns len(recipients)
PublishIter ==
    \E c \in Conns : \E p \in {net.pub[c]} :
       \E raise \in (IF Cardinality(IterSet(net, p)) # p.size THEN {TRUE, FALSE} ELSE {FALSE}) :
        /\ net.pc[c] = "iter"
        /\ UNCHANGED <<storage, now, dirty, last, schedVars, parser, wire, disk>>
        /\ IF raise
           THEN /\ net' = Ended(net, client_state, c)
                /\ client_state' = cleanup_client(client_state, c)
           ELSE /\ UNCHANGED client_state
                /\ IF IterSet(net, p) \ p.seen # {}
                   THEN \E d \in IterSet(net, p) \ p.seen :
                          net' = IF d \in net.closed
                                 THEN [net EXCEPT !.pub[c].seen = @ \cup {d},
                                                  !.pub[c].recipients = @ \cup {d}]
                                 ELSE [net EXCEPT !.pub[c].seen = @ \cup {d},
                                                  !.pub[c].cur = d, !.pc[c] = "write"]
                   ELSE \E ptodo \in {IF p.phase = "direct"
                                      THEN _match_patterns(net, p.channel) ELSE p.ptodo} :
                          IF ptodo = {}
                          THEN net' = [net EXCEPT !.pc[c] = "read", !.pub[c] = NoPublish,
                                           !.reply[c] = [n |-> Cardinality(p.recipients),
                                                         delivered |-> Cardinality(p.delivered)]]
                          ELSE \E pattern \in ptodo :
                                 net' = [net EXCEPT !.pub[c] =
                                            BeginLoop(net, [p EXCEPT !.ptodo = ptodo \ {pattern}],
                                                      "pattern", pattern)]

\* write_response to subscriber cur resumes: the drain went through, timed out
\* (close() sets _closed) or raised OSError (_closed is set); publish adds the
\* connection to recipients in each case
PublishWritten ==
    \E c \in Conns, outcome \in {"ok", "timeout", "oserror"} :
        /\ net.pc[c] = "write" /\ \A d \in Conns \ {c} : net.pc[d] # "iter"
        /\ outcome = "ok" => net.pub[c].cur \notin net.closed
        /\ net' = [net EXCEPT !.pc[c] = "iter",
                              !.pub[c].recipients = @ \cup {net.pub[c].cur},
                              !.pub[c].delivered = IF outcome = "ok" THEN @ \cup {net.pub[c].cur}
                                                   ELSE @,
                              !.closed = IF outcome = "ok" THEN @ ELSE @ \cup {net.pub[c].cur}]
        /\ UNCHANGED <<storeVars, schedVars, parser, wire, disk>>

\* read_command returns None (end of stream, timeout, socket error) or an
\* exception leaves the loop: the finally block of handle_client
Disconnect ==
    \E c \in Conns :
        /\ Idle(c)
        /\ net' = Ended(net, client_state, c)
        /\ client_state' = cleanup_client(client_state, c)
        /\ UNCHANGED <<storage, now, dirty, last, schedVars, parser, wire, disk>>

NextConn ==
    \/ ConnSubscribe \/ ConnUnsubscribe \/ ConnPsubscribe \/ ConnPunsubscribe \/ ConnTxn
    \/ PublishBegin \/ PublishIter \/ PublishWritten \/ Disconnect

SpecConn == Init /\ [][NextConn]_vars

\* C15: a connection whose handler has ended is in no set of the channel and
\* pattern registries, has no entry in the two per-client registries, and
\* the transaction manager holds no state for it.
C15_NothingLeftOfEndedConnection ==
    \A c \in Conns :
        net.pc[c] = "ended" =>
            /\ \A channel \in DOMAIN net.channels : c \notin net.channels[channel]
            /\ \A pattern \in DOMAIN net.patterns : c \notin net.patterns[pattern]
            /\ c \notin DOMAIN net.client_channels
            /\ c \notin DOMAIN net.client_patterns
            /\ c \notin DOMAIN client_state

\* a handler ended on a connection that held a channel, a pattern and
\* transaction state
C15_Witness ==
    \E c \in Conns : net.pc[c] = "ended" /\ net.had[c] = {"channel", "pattern", "txn"}

\* C16: the integer PUBLISH answers is the number of connections a message
\* was delivered to: a connection whose write failed, timed out or that was
\* closed already is not counted.
C16_PublishCountsDeliveries ==
    \A c \in Conns : net.reply[c].n = net.reply[c].delivered


-----------------------------------------------------------------------------
(* Properties of the transaction commands, checked under SpecTxn *)

\* C17: WATCH or MULTI sent by a connection inside MULTI is answered with an
\* error and sets error_state; an EXEC that finds error_state set (and no
\* watched key changed) answers EXECABORT and runs no queued command.
C17_ForbiddenInsideMultiAborts ==
    [][\A c \in TxnConns :
          (is_in_transaction(client_state, c) /\ last'.conn = c) =>
             /\ last'.op \in {"WATCH", "MULTI"}
                   => (last'.r = error("ERR") /\ client_state'[c].error_state)
             /\ (last'.op = "EXEC" /\ client_state[c].error_state
                     /\ ~WatchConflict(client_state[c], storage))
                   => (last'.r = error("EXECABORT") /\ last'.ran = 0 /\ storage' = storage)]_vars


\* the version counter of some key watched by c is no longer the one WATCH recorded
Mismatch(c) ==
    \E k \in DOMAIN client_state[c].watched_keys :
        (IF k \in DOMAIN storage.version THEN storage.version[k] ELSE 0)
            # client_state[c].watched_keys[k]

\* C18: EXEC decides its reply in a fixed order: outside MULTI an error;
\* otherwise the null array when the version of a watched key differs from the
\* recorded one; otherwise EXECABORT when error_state is set; only otherwise
\* the queue is run.  Neither abort executes a queued command, and a
\* transaction with both a mismatch and error_state gets the null array.
C18_ExecReplyOrder ==
    [][\A c \in TxnConns :
          (last'.conn = c /\ last'.op = "EXEC") =>
             IF ~(c \in DOMAIN client_state /\ client_state[c].in_multi)
             THEN last'.r = error("ERR") /\ last'.ran = 0 /\ storage' = storage
             ELSE IF Mismatch(c)
             THEN last'.r = RESP_NULL_ARRAY /\ last'.ran = 0 /\ storage' = storage
             ELSE IF client_state[c].error_state
             THEN last'.r = error("EXECABORT") /\ last'.ran = 0 /\ storage' = storage
             ELSE /\ last'.r.kind = "array"
                  /\ last'.ran = Len(client_state[c].command_queue)]_vars

\* an EXEC inside MULTI found a watched key changed and answered the null array
C18_Witness ==
    /\ last.op = "EXEC"
    /\ last.r = RESP_NULL_ARRAY
    /\ last.conflict


\* the storage after the first i commands of a queue ran one after the other
RECURSIVE After(_, _, _, _)
After(S, queue, i, t) ==
    IF i = 0 THEN S ELSE execute(After(S, queue, i - 1, t), queue[i], t).S

Failed(r) == r.kind \in {"ERR", "WRONGTYPE", "OOM"}

\* C19: an EXEC that runs a queue of n commands replies an array of exactly n
\* results in queue order: the i-th is the reply of the i-th command run on
\* the storage the first i-1 left, its error when it fails, and the commands
\* after a failed one are run all the same.
C19_ExecRunsWholeQueue ==
    [][\A c \in TxnConns :
          (/\ last'.conn = c /\ last'.op = "EXEC"
           /\ c \in DOMAIN client_state /\ client_state[c].in_multi
           /\ ~Mismatch(c) /\ ~client_state[c].error_state)
          => /\ last'.r.kind = "array"
             /\ last'.r.n = Len(client_state[c].command_queue)
             /\ Len(last'.r.v) = Len(client_state[c].command_queue)
             /\ \A i \in 1..Len(client_state[c].command_queue) :
                    last'.r.v[i] = execute(After(storage, client_state[c].command_queue, i - 1, now),
                                           client_state[c].command_queue[i], now).r
             /\ storage' = After(storage, client_state[c].command_queue,
                                 Len(client_state[c].command_queue), now)]_vars

\* an EXEC replied an array whose first result is an error and whose second
\* is the reply of the command queued after it
C19_Witness ==
    /\ last.op = "EXEC"
    /\ last.r.kind = "array"
    /\ last.r.n = 2
    /\ Failed(last.r.v[1])
    /\ ~Failed(last.r.v[2])


-----------------------------------------------------------------------------
(* SpecWire: handle_client serving one client whose request stream may end  *)
(* in bytes the parser rejects.  wire.out holds the frames written to the   *)
(* client, wire.mode the handler's position: "feed" in read_command,        *)
(* "command" with a command in hand, "closed" after conn.close().           *)

\* *x CR LF, *99999 CR LF, *1 CR LF $x CR LF and *1 CR LF $99999 CR LF
Malformed ==
    {<<42, 120, 13, 10>>,
     <<42, 57, 57, 57, 57, 57, 13, 10>>,
     <<42, 49, 13, 10, 36, 120, 13, 10>>,
     <<42, 49, 13, 10, 36, 57, 57, 57, 57, 57, 13, 10>>}

WireStreams ==
    {g \o b : g \in StreamsOf(0) \cup StreamsOf(1), b \in Malformed \cup {<<>>}} \ {<<>>}

InitWire ==
    /\ InitStore
    /\ InitSched
    /\ parser = NewParser
    /\ disk = NoDisk
    /\ net = NewNet
    /\ \E s \in WireStreams :
          wire = [stream |-> s, rest |-> s, out |-> <<>>, mode |-> "feed", feeds |-> 0]

\* what read_command did with the bytes of one reader.read
ReadOutcome(s) == Last("read_command", "", "", FALSE, 0, Reply(s.kind, 0, <<>>), FALSE, 0)

\* one round of read_command inside handle_client: no byte left is the
\* client's end of stream and ends the handler; else up to BUFFER_SIZE bytes
\* are fed and parse is called once.  A frame goes to execute_command, None
\* reads again, and a ValueError of the parser leaves handle_client through
\* its except and finally clauses, which close the connection.
ReadCommand ==
    /\ wire.mode = "feed"
    /\ \E n \in 0 .. Len(wire.rest) :
          /\ n = 0 <=> wire.rest = <<>>
          /\ n <= BUFFER_SIZE
          /\ \E s \in {parse(feed(parser, SubSeq(wire.rest, 1, n)))} :
                /\ parser' = IF n = 0 THEN parser ELSE s.p
                /\ wire' = [wire EXCEPT
                              !.rest = SubSeq(@, n + 1, Len(@)),
                              !.feeds = @ + 1,
                              !.mode = IF n = 0 \/ s.kind = "error" THEN "closed"
                                       ELSE IF s.kind = "frame" THEN "command"
                                       ELSE "feed"]
                /\ last' = IF n = 0 THEN NoLast ELSE ReadOutcome(s)
    /\ UNCHANGED <<storage, now, client_state, dirty, schedVars, disk, net>>

\* execute_command and write_response for the command in hand: the requests
\* of WireStreams name no registered command, the router's reply is an error
Respond ==
    /\ wire.mode = "command"
    /\ \E o \in {execute(storage, NoCmd, now)} :
          /\ wire' = [wire EXCEPT !.out = Append(@, o.r), !.mode = "feed"]
          /\ last' = Last("write_response", "", "", FALSE, 0, o.r, FALSE, 0)
    /\ UNCHANGED <<storage, now, client_state, dirty, schedVars, parser, disk, net>>

NextWire == ReadCommand \/ Respond

SpecWire == InitWire /\ [][NextWire]_vars

\* C20: when the parser raises a fatal protocol error (a size cap exceeded or
\* malformed framing), the server writes exactly one error frame to that
\* client and then closes the connection.
C20_ProtocolErrorFrameThenClose ==
    [][(last'.op = "read_command" /\ last'.r.kind = "error") =>
          /\ Len(wire'.out) = Len(wire.out) + 1
          /\ Failed(wire'.out[Len(wire'.out)])
          /\ wire'.mode = "closed"]_vars


-----------------------------------------------------------------------------
(* SpecServe: handle_client serving the commands of one client, failing     *)
(* ones among them.  wire.out holds the replies written, wire.feeds counts  *)
(* the requests read.                                                       *)

\* requests that succeed and requests that fail: an unknown name, GET without
\* its key, GET of a list, INCRBY of a string that is no number, a SET beyond
\* MAX_KEYS, XREAD of a string, XREAD ending in COUNT without its value
ServeCmds ==
    {Cmd("SET", "a", "", 0), Cmd("SET", "b", "", 0), Cmd("RPUSH", "a", "", 0),
     Cmd("DEL", "a", "", 0), Cmd("GET", "a", "", 0), Cmd("GET", "", "", 0),
     Cmd("NOSUCH", "", "", 0), Cmd("INCRBY", "a", "", 1),
     Cmd("XREAD", "a", "", 0), Cmd("XREAD", "a", "COUNT", 0)}

InitServe ==
    /\ InitStore
    /\ InitSched
    /\ parser = NewParser
    /\ disk = NoDisk
    /\ net = NewNet
    /\ wire = [NoWire EXCEPT !.mode = "feed"]

\* one round of the loop of handle_client: read_command, execute_command and
\* write_response; an exception that leaves execute_command is taken by the
\* except clause of handle_client, whose finally clause closes the connection
Serve ==
    /\ wire.mode = "feed"
    /\ wire.feeds < MaxFrames
    /\ \E cmd \in ServeCmds : \E o \in {execute(storage, cmd, now)} :
          /\ InBounds(o.S)
          /\ storage' = o.S
          /\ wire' = IF o.r = IndexError
                     THEN [wire EXCEPT !.feeds = @ + 1, !.mode = "closed"]
                     ELSE [wire EXCEPT !.feeds = @ + 1, !.out = Append(@, o.r)]
          /\ last' = Last(cmd.op, "", cmd.key, FALSE, 0, o.r, FALSE, 0)
    /\ UNCHANGED <<now, client_state, dirty, schedVars, parser, disk, net>>

\* the client closes its end: read_command returns None and the loop ends
ServeEnd ==
    /\ wire.mode = "feed"
    /\ wire' = [wire EXCEPT !.mode = "closed"]
    /\ last' = NoLast
    /\ UNCHANGED <<storage, now, client_state, dirty, schedVars, parser, disk, net>>

NextServe == Serve \/ ServeEnd

SpecServe == InitServe /\ [][NextServe]_vars

\* the command of this step fails at command level: unknown name, wrong
\* arity, wrong type, a value that is no integer, the key-count limit, or an
\* option without its value
CommandFails ==
    \/ last'.op = "NOSUCH"
    \/ last'.op = "GET" /\ last'.key = ""
    \/ /\ last'.op \in {"GET", "INCRBY", "XREAD"}
       /\ last'.key \in DOMAIN storage.data
       /\ ~_check_type(storage, last'.key,
                       IF last'.op = "XREAD" THEN TYPE_STREAM ELSE TYPE_STRING)
    \/ /\ last'.op = "INCRBY"
       /\ last'.key \in DOMAIN storage.data
       /\ _check_type(storage, last'.key, TYPE_STRING)
       /\ ~int(storage.data[last'.key].items).ok
    \/ /\ last'.op = "SET"
       /\ last'.key \notin DOMAIN storage.data
       /\ Cardinality(DOMAIN storage.data) >= MAX_KEYS
    \/ last'.r = IndexError

\* C21: a command-level failure (unknown command, wrong arity, wrong type,
\* missing option value, non-integer argument, OOM) produces exactly one
\* error frame as the reply to that command and leaves the connection open.
C21_CommandFailureOneErrorFrame ==
    [][(last'.op # "" /\ CommandFails) =>
          /\ Len(wire'.out) = Len(wire.out) + 1
          /\ Failed(wire'.out[Len(wire'.out)])
          /\ wire'.mode = "feed"]_vars


-----------------------------------------------------------------------------
(* SpecCaps: handle_client reading one request that passes a cap of the     *)
(* parser, or one that does not                                             *)

\* n array headers *1 CR LF, one inside the other
RECURSIVE Nest(_)
Nest(n) == IF n = 0 THEN <<>> ELSE <<42, 49, 13, 10>> \o Nest(n - 1)

\* $1 CR LF a CR LF
OneBulk == <<36, 49, 13, 10, 97, 13, 10>>

\* requests no parser may accept: MAX_ARRAY_DEPTH + 1 nested arrays, an array
\* of 8193 and a bulk string of 65537 (in an array and alone), and the array
\* lengths x and -5
OverCap ==
    {Nest(MAX_ARRAY_DEPTH + 1) \o OneBulk,
     <<42, 56, 49, 57, 51, 13, 10>> \o OneBulk,
     <<42, 49, 13, 10, 36, 54, 53, 53, 51, 55, 13, 10>>,
     <<36, 54, 53, 53, 51, 55, 13, 10>>,
     <<42, 120, 13, 10>> \o OneBulk,
     <<42, 45, 53, 13, 10>> \o OneBulk}

InitCaps ==
    /\ InitStore
    /\ InitSched
    /\ parser = NewParser
    /\ disk = NoDisk
    /\ net = NewNet
    /\ \E s \in OverCap \cup StreamsOf(1) :
          wire = [stream |-> s, rest |-> s, out |-> <<>>, mode |-> "feed", feeds |-> 0]

SpecCaps == InitCaps /\ [][NextWire]_vars

\* C22: the parser never accepts a frame nested deeper than 32 arrays, a bulk
\* string longer than 64 KiB, or an array whose declared length exceeds 8192
\* or is no valid length: no such request reaches execute_command or gets a
\* reply, the parser buffers no element for it, and once its bytes are read
\* the parser has raised and the connection is closed.
C22_CapsEnforced ==
    wire.stream \in OverCap =>
       /\ wire.mode # "command"
       /\ wire.out = <<>>
       /\ parser.elems = <<>>
       /\ wire.rest = <<>> => (wire.mode = "closed" /\ last.r.kind = "error")


-----------------------------------------------------------------------------
(* SpecGate: ConnectionHandler.execute_command from its first line: the     *)
(* middleware chain, AUTH, the pub/sub restriction, then the transaction,   *)
(* pub/sub and router commands (network/middleware.py, connection.py)       *)

NOAUTH_COMMANDS == {"AUTH", "PING", "QUIT"}
ERR_NOAUTH == error("NOAUTH")
ERR_INVALID_PASSWORD == error("WRONGPASS")

\* the configured password of a server that asks for one
Password == "pw"

GateOut(N, cs, S, r) == [N |-> N, cs |-> cs, S |-> S, r |-> r]

\* an AuthMiddleware that lets SUBSCRIBE pass as well
check_auth_or_subscribe(N, c, cmd) ==
    \/ N.password = ""
    \/ cmd.op \in NOAUTH_COMMANDS \cup {"SUBSCRIBE"}
    \/ N.authenticated[c]

\* AuthMiddleware.check_auth succeeds; no AuthMiddleware is in the chain when
\* requirepass is None or empty
check_auth(N, c, cmd) ==
    \/ N.password = ""
    \/ cmd.op \in NOAUTH_COMMANDS
    \/ N.authenticated[c]

\* AuthMiddleware.handle_auth, and the reply to AUTH without AuthMiddleware
handle_auth(N, cs, S, c, password) ==
    IF N.password = "" THEN GateOut(N, cs, S, error("ERR"))
    ELSE IF password = N.password
    THEN GateOut([N EXCEPT !.authenticated[c] = TRUE], cs, S, RESP_OK)
    ELSE GateOut([N EXCEPT !.authenticated[c] = FALSE], cs, S, ERR_INVALID_PASSWORD)

PubSubOps == {"SUBSCRIBE", "UNSUBSCRIBE", "PSUBSCRIBE", "PUNSUBSCRIBE"}

\* subscribe and psubscribe called with no name: the connection's entry in
\* the client registry is created and the loop over the names does nothing
subscribe_none(d, c) == IF c \in DOMAIN d THEN d ELSE DictPut(d, c, {})

\* unsubscribe and punsubscribe called with no name: every name of the
\* connection is dropped and its entry in the client registry deleted
unsubscribe_none(chs, d, c) == DiscardEach(chs, DictGet(d, c, {}), c)

\* the pub/sub branch of execute_command for one channel or pattern, or for
\* none (key = "")
pubsub_command(N, c, cmd) ==
    CASE cmd.op = "SUBSCRIBE" ->
            IF cmd.key = "" THEN [N EXCEPT !.client_channels = subscribe_none(@, c)]
            ELSE subscribe_channel(N, c, cmd.key)
      [] cmd.op = "UNSUBSCRIBE" ->
            IF cmd.key = ""
            THEN [N EXCEPT !.channels = unsubscribe_none(@, N.client_channels, c),
                           !.client_channels = DictPop(@, c)]
            ELSE unsubscribe(N, c, cmd.key)
      [] cmd.op = "PSUBSCRIBE" ->
            IF cmd.key = "" THEN [N EXCEPT !.client_patterns = subscribe_none(@, c)]
            ELSE psubscribe(N, c, cmd.key)
      [] cmd.op = "PUNSUBSCRIBE" ->
            IF cmd.key = ""
            THEN [N EXCEPT !.patterns = unsubscribe_none(@, N.client_patterns, c),
                           !.client_patterns = DictPop(@, c)]
            ELSE punsubscribe(N, c, cmd.key)

\* ConnectionHandler.execute_command as a whole
process(N, cs, S, c, cmd, t) ==
    IF ~check_auth(N, c, cmd) THEN GateOut(N, cs, S, ERR_NOAUTH)
    ELSE IF cmd.op = "AUTH" THEN handle_auth(N, cs, S, c, cmd.key)
    ELSE IF in_pubsub_mode(N, c) /\ cmd.op \notin PUBSUB_ALLOWED_CMDS
    THEN GateOut(N, cs, S, error("ERR"))
    ELSE IF cmd.op \in PubSubOps /\ ~is_in_transaction(cs, c)
    THEN GateOut(pubsub_command(N, c, cmd), cs, S, Reply("pushed", 0, <<>>))
    ELSE The({ GateOut(N, o.cs, o.S, o.r) : o \in {execute_command(cs, S, c, cmd, t)} })

\* one request of connection c served by execute_command
Gate(c, cmd) ==
    \E o \in {process(net, client_state, storage, c, cmd, now)} :
       /\ InBounds(o.S)
       /\ \A d \in DOMAIN o.cs : Len(o.cs[d].command_queue) <= MaxQueue
       /\ net' = o.N
       /\ client_state' = o.cs
       /\ storage' = o.S
       /\ last' = Last(cmd.op, c, cmd.key, FALSE, 0, o.r, FALSE, 0)
       /\ UNCHANGED <<now, dirty, schedVars, parser, wire, disk>>

GateAuth ==
    \E c \in Conns, password \in {Password, "bad"} :
        /\ Gate(c, Cmd("AUTH", password, "", 0))

\* inside MULTI the clients of the model queue SET only
GateStore ==
    \E c \in Conns, op \in {"SET", "GET"} :
        /\ is_in_transaction(client_state, c) => op = "SET"
        /\ Gate(c, Cmd(op, "a", "", 0))

GateTxn ==
    \E c \in TxnConns, op \in {"MULTI", "EXEC"} :
        /\ Gate(c, Cmd(op, "", "", 0))

\* a pub/sub command with one name, or with none
GateSub ==
    \E c \in TxnConns, op \in PubSubOps, name \in {"", "one"} :
        /\ Gate(c, Cmd(op, IF name = "" THEN ""
                           ELSE IF op \in {"SUBSCRIBE", "UNSUBSCRIBE"} THEN "ch" ELSE "c*", "", 0))

GatePing ==
    \E c \in Conns :
        /\ ~is_in_transaction(client_state, c)
        /\ Gate(c, Cmd("PING", "", "", 0))

InitGate ==
    /\ InitStore
    /\ InitSched
    /\ parser = NewParser
    /\ wire = NoWire
    /\ disk = NoDisk
    /\ \E password \in {"", Password} : net = [NewNet EXCEPT !.password = password]

NextGate == GateAuth \/ GateStore \/ GateTxn \/ GateSub \/ GatePing

SpecGate == InitGate /\ [][NextGate]_vars

\* C23: with a password configured, a command other than AUTH, PING or QUIT
\* sent on a connection that is not authenticated gets the NOAUTH error and
\* is not executed or queued: storage, subscriptions and transaction state
\* stay as they were.
C23_NoAuthNoEffect ==
    [][\A c \in Conns :
          (/\ net.password # "" /\ ~net.authenticated[c]
           /\ last'.conn = c /\ last'.op \notin {"", "AUTH", "PING", "QUIT"})
          => /\ last'.r = error("NOAUTH")
             /\ storage' = storage
             /\ client_state' = client_state
             /\ net' = net]_vars

\* a SET of a connection that is not authenticated was refused while another
\* connection is authenticated and a key is stored
C23_Witness ==
    /\ last.op = "SET"
    /\ last.r = error("NOAUTH")
    /\ \E d \in Conns : net.authenticated[d]
    /\ "a" \in DOMAIN storage.data


\* connection c is a subscriber of some channel or pattern
HoldsSubscription(c) ==
    \/ \E channel \in DOMAIN net.channels : c \in net.channels[channel]
    \/ \E pattern \in DOMAIN net.patterns : c \in net.patterns[pattern]

\* C24: a connection is restricted to SUBSCRIBE, UNSUBSCRIBE, PSUBSCRIBE,
\* PUNSUBSCRIBE, PING and QUIT exactly while it holds at least one channel or
\* pattern subscription: then every other command gets the restriction error
\* and has no effect, and with no subscription left SET and GET are served.
C24_RestrictedWhileSubscribed ==
    [][\A c \in Conns :
          (/\ last'.conn = c /\ last'.op \in {"SET", "GET", "MULTI", "EXEC"}
           /\ (net.password = "" \/ net.authenticated[c]))
          => IF HoldsSubscription(c)
             THEN /\ last'.r = error("ERR")
                  /\ storage' = storage
                  /\ client_state' = client_state
                  /\ net' = net
             ELSE last'.op \in {"SET", "GET"} => last'.r.kind # "ERR"]_vars


-----------------------------------------------------------------------------
(* SpecTtl: deadlines observed by PTTL while the millisecond counter of     *)
(* time.ticks_ms runs on and wraps at TICKS_PERIOD                          *)

\* the readings of the counter the model visits lie this close to its wrap
MaxTicks == 3

\* time passes between two commands: one millisecond, or two less than a
\* whole period of the counter
Elapse ==
    \E d \in {1, TICKS_PERIOD - 2} :
        /\ ticks_diff(ticks_add(now, d), 0) \in (0 - MaxTicks) .. MaxTicks
        /\ now' = ticks_add(now, d)
        /\ UNCHANGED <<storage, client_state, dirty, last, schedVars, ioVars>>

NextTtl == CmdSet \/ CmdPexpire \/ CmdPttl \/ CmdDel \/ Elapse

SpecTtl == Init /\ [][NextTtl]_vars

\* C25: two PTTL observations of a key at times t1 < t2, with no expire,
\* persist or delete of the key (here: no command at all) in between, satisfy
\* pttl(k, t2) <= pttl(k, t1), however much time passes between them.
C25_TtlNeverGrows ==
    [][(last.op = "PTTL" /\ last'.op = "PTTL" /\ last'.key = last.key)
          => last'.r.n <= last.r.n]_vars


-----------------------------------------------------------------------------
(* SpecAuto: commands through the router while auto_save_loop wakes once a  *)
(* minute; the clock counts the loop's one-minute sleeps                    *)

\* SnapshotManager(save_interval=300, min_changes=100), scaled: the interval
\* in sleeps of the loop, the threshold in commands
SaveInterval == 2
MinChanges == 2
MaxChecks == 4

mark_change(D) == [D EXCEPT !.changes_since_save = @ + 1]

should_auto_save(D, t) ==
    IF D.changes_since_save < MinChanges THEN FALSE
    ELSE t - D.last_save >= SaveInterval

AutoCmds ==
    {Cmd("SET", "a", "", 0), Cmd("RPUSH", "b", "", 0), Cmd("DEL", "a", "", 0),
     Cmd("GET", "a", "", 0)}

\* a command of a client: ConnectionHandler hands it to CommandRouter.execute,
\* which runs its handler on the storage
AutoCommand ==
    \E cmd \in AutoCmds : \E o \in {execute(storage, cmd, 0)} :
        /\ InBounds(o.S)
        /\ storage' = o.S
        /\ last' = Last(cmd.op, "", cmd.key, FALSE, 0, o.r, FALSE, 0)
        /\ UNCHANGED <<now, client_state, dirty, schedVars, ioVars>>

\* a save that succeeds: the snapshot of the keyspace replaces the file, the
\* counter is reset and last_save is the time the save began
saved(D, S, t) ==
    [D EXCEPT !.live = File("full", EncodeKeys(S).recs), !.saved = S,
              !.last_save = t, !.changes_since_save = 0]

\* save() at shutdown or on request of the embedding program
Save ==
    /\ EncodeKeys(storage).ok
    /\ disk' = saved(disk, storage, now)
    /\ last' = Last("SAVE", "", "", FALSE, 0, True, FALSE, 0)
    /\ UNCHANGED <<storage, now, client_state, dirty, schedVars, parser, wire, net>>

\* the loop wakes from its sleep and awaits save_async when should_auto_save
AutoCheck ==
    /\ now < MaxChecks
    /\ now' = now + 1
    /\ disk' = IF should_auto_save(disk, now + 1) /\ EncodeKeys(storage).ok
                THEN saved(disk, storage, now + 1)
                ELSE disk
    /\ last' = NoLast
    /\ UNCHANGED <<storage, client_state, dirty, schedVars, parser, wire, net>>

NextAuto == AutoCommand \/ AutoCheck \/ Save

SpecAuto == Init /\ [][NextAuto]_vars

\* C26: every executed write command increments changes_since_save (so that
\* min_changes writes and save_interval later the loop starts a save).
C26_WriteCountsAsChange ==
    [][storage' # storage => disk'.changes_since_save = disk.changes_since_save + 1]_vars

\* the loop never starts a save, however many writes were executed
AutoSaveNeverStarts == [][now' # now => disk' = disk]_vars


-----------------------------------------------------------------------------
(* SpecStream: XADD with explicit and generated ids, XTRIM and DEL *)

\* explicit ids ms-seq as 10 * ms + seq: 0-0, 0-1, 1-0, 1-1, 2-0, 3-0
StreamIds == {0, 1, 10, 11, 20, 30}

StreamXadd ==
    \E k \in Keys, id \in StreamIds :
        /\ Run(Cmd("XADD", k, "", id))

StreamXaddAuto ==
    \E k \in Keys :
        /\ Run(Cmd("XADD", k, "*", 0))

StreamXtrim ==
    \E k \in Keys, maxlen \in 1 .. MaxList :
        /\ Run(Cmd("XTRIM", k, "", maxlen))

NextStream == StreamXadd \/ StreamXaddAuto \/ StreamXtrim \/ CmdDel \/ Tick

SpecStream == Init /\ [][NextStream]_vars

\* C27: within every stream the entry ids strictly increase in insertion
\* order, after any sequence of XADD (explicit or generated ids) and XTRIM.
C27_StreamIdsIncrease ==
    \A k \in DOMAIN storage.data :
        storage.data[k].kind = "stream" =>
            \A i, j \in 1 .. Len(storage.data[k].items) :
                i < j => storage.data[k].items[i] < storage.data[k].items[j]


-----------------------------------------------------------------------------
(* SpecRename: RENAME between any two keys, the same key included *)

RenameAny ==
    \E k \in Keys, k2 \in Keys :
        /\ Run(Cmd("RENAME", k, k2, 0))

NextRename == CmdSet \/ CmdRpush \/ CmdPexpire \/ RenameAny \/ CmdDel \/ Tick

SpecRename == Init /\ [][NextRename]_vars

\* C28: for every existing source key and every destination key, after RENAME
\* the destination holds the source's value, type tag and deadline, and the
\* source, when it is another key, is absent from data and the side maps.
C28_RenameMovesKey ==
    \A key \in Live(storage, now), newkey \in Keys :
        \A o \in {rename(storage, key, newkey, now)} :
            /\ o.r = RESP_OK
            /\ newkey \in DOMAIN o.S.data
            /\ o.S.data[newkey] = storage.data[key]
            /\ DictGet(o.S.types, newkey, -1) = DictGet(storage.types, key, -1)
            /\ DictGet(o.S.expires, newkey, -1) = DictGet(storage.expires, key, -1)
            /\ key # newkey =>
                  /\ key \notin DOMAIN o.S.data
                  /\ key \notin DOMAIN o.S.types
                  /\ key \notin DOMAIN o.S.expires
                  /\ key \notin DOMAIN o.S.version


-----------------------------------------------------------------------------
(* SpecIncr: INCR and DECR on counters at the ends of the signed 64-bit range *)

\* 9223372036854775807 and 9223372036854775808: the magnitudes of the largest
\* and of the smallest signed 64-bit integer
MaxMag == <<57, 50, 50, 51, 51, 55, 50, 48, 51, 54, 56, 53, 52, 55, 55, 53, 56, 48, 55>>
MinMag == Succ(MaxMag)

\* the values a client SET before the counting starts: the ends of the range,
\* their neighbours, small numbers, and bytes that are no integer
CounterValues ==
    {MaxMag, Pred(MaxMag), <<45>> \o MinMag, <<45>> \o MaxMag, <<48>>, <<49>>, <<45, 49>>,
     <<57, 57>>, <<49, 48, 48>>, <<97>>, <<>>, <<49, 46, 53>>}

InitIncr ==
    /\ \E v \in CounterValues : storage = set(EmptyStorage, "a", v, 0, FALSE, FALSE, 0).S
    /\ now = 0
    /\ client_state = EmptyDict
    /\ dirty = [c \in Conns |-> {}]
    /\ last = NoLast
    /\ InitSched
    /\ InitIO

\* one command through CommandRouter.execute, on values of any length
Count(cmd) ==
    \E o \in {execute(storage, cmd, now)} :
       /\ \A k \in DOMAIN o.S.version : o.S.version[k] <= MaxVersion
       /\ storage' = o.S
       /\ last' = Last(cmd.op, "", cmd.key, FALSE, 0, o.r, FALSE, 0)
       /\ UNCHANGED <<now, client_state, dirty, schedVars, ioVars>>

CmdIncr ==
    \E k \in Keys :
        /\ Count(Cmd("INCR", k, "", 0))

CmdDecr ==
    \E k \in Keys :
        /\ Count(Cmd("DECR", k, "", 0))

CounterOther ==
    \E k \in Keys, op \in {"DEL", "RPUSH"} :
        /\ Count(Cmd(op, k, "", 0))

NextIncr == CmdIncr \/ CmdDecr \/ CounterOther

SpecIncr == InitIncr /\ [][NextIncr]_vars

\* d <= e for two magnitudes without leading zeros
Leq(d, e) ==
    \/ Len(d) < Len(e)
    \/ /\ Len(d) = Len(e)
       /\ \A i \in 1 .. Len(d) : d[i] > e[i] => \E j \in 1 .. i - 1 : d[j] < e[j]

\* the bytes are the decimal form of a signed 64-bit integer
InRange(v) ==
    /\ _bytes_to_int(v).ok
    /\ Leq(_bytes_to_int(v).mag, IF _bytes_to_int(v).neg THEN MinMag ELSE MaxMag)

\* C29: INCR and DECR answer an error and leave the value as it is when the
\* stored value is no signed integer or the result would leave the signed
\* 64-bit range: a counter they answered with an integer for is in the range.
C29_CountersStayIn64Bits ==
    (last.op \in {"INCR", "DECR"} /\ last.r.kind = "int")
        => InRange(storage.data[last.key].items)


-----------------------------------------------------------------------------
(* SpecOrder: the requests of two clients, numbered as they are sent, and   *)
(* the replies their handlers write, in wire.out as they reach the sockets  *)

\* what the clients send; arg, which these commands ignore, carries the
\* number of the request on its connection.  c1 pipelines up to MaxFrames
\* requests, the other client sends one
OrderOps == {"PING", "RPUSH"}

OrderSend ==
    \E c \in Conns, op \in OrderOps :
        /\ conns[c].sent < (IF c \in TxnConns THEN MaxFrames ELSE 1)
        /\ conns' = [conns EXCEPT
                        ![c].inbuf = Append(@, Cmd(op, IF op = "PING" THEN "" ELSE "a", "",
                                                   conns[c].sent + 1)),
                        ![c].sent = @ + 1]
        /\ UNCHANGED <<storeVars, channels, sched, ioVars>>

\* execute_command on the command in hand, then write_response: the reply is
\* written to the socket and the handler awaits drain
Answer ==
    \E c \in Conns :
        /\ conns[c].pc = "command"
        /\ CanRun(c)
        /\ \E o \in {process(net, client_state, storage, c, conns[c].cur, now)} :
              /\ InBounds(o.S)
              /\ net' = o.N
              /\ client_state' = o.cs
              /\ storage' = o.S
              /\ wire' = [wire EXCEPT !.out = Append(@, [conn |-> c, n |-> conns[c].cur.arg,
                                                         r |-> o.r])]
        /\ conns' = [conns EXCEPT ![c].pc = "drain"]
        /\ sched' = c
        /\ UNCHANGED <<now, dirty, last, channels, parser, disk>>

NextOrder == OrderSend \/ Read \/ Answer \/ WriteDone

SpecOrder == Init /\ [][NextOrder]_vars

\* the replies written on connection c, oldest first
Written(c) == SelectSeq(wire.out, LAMBDA w : w.conn = c)

\* C30: on each connection the replies are written in the order in which the
\* requests were received: the i-th reply written is the reply to request i.
C30_RepliesInRequestOrder ==
    \A c \in Conns : \A i \in 1 .. Len(Written(c)) : Written(c)[i].n = i

\* a connection has two replies written while a pipelined request waits in
\* its parser, and the other connection was answered in between
C30_Witness ==
    \E c \in Conns :
        /\ Len(Written(c)) >= 2
        /\ conns[c].pbuf # <<>>
        /\ \E i, j, k \in 1 .. Len(wire.out) :
              /\ i < j /\ j < k
              /\ wire.out[i].conn = c /\ wire.out[j].conn # c /\ wire.out[k].conn = c


-----------------------------------------------------------------------------
(* SpecReap: absolute deadlines near and far, and runs of expire_keys *)

\* PEXPIREAT with a deadline one millisecond and half a period of the tick
\* counter (about 6.2 days) after the start
ReapPexpireat ==
    \E k \in Keys, at \in {1, TICKS_PERIOD \div 2} :
        /\ Run(Cmd("PEXPIREAT", k, "", at))

NextReap == CmdSet \/ ReapPexpireat \/ CmdDel \/ ExpiryRun \/ Tick

SpecReap == Init /\ [][NextReap]_vars

\* the last command gave k a deadline ahead of the clock, and no time has
\* passed since
FutureSet(k) ==
    /\ last.op = "PEXPIREAT" /\ last.key = k /\ last.r = integer(1)
    /\ k \in DOMAIN storage.data \cap DOMAIN storage.expires

\* C31: one run of the active-expiry step deletes a key only if the key has a
\* deadline, the deadline is that of a heap entry and it has passed; a key
\* whose deadline is still in the future is not deleted and its entry stays.
C31_ReapOnlyPassedDeadlines ==
    [][ExpiryRun =>
          \A k \in DOMAIN storage.data :
              /\ k \notin DOMAIN storage'.data =>
                    /\ k \in DOMAIN storage.expires
                    /\ <<storage.expires[k], k>> \in storage.heap
                    /\ ~FutureSet(k)
              /\ (FutureSet(k) /\ <<storage.expires[k], k>> \in storage.heap) =>
                    <<storage.expires[k], k>> \in storage'.heap]_vars

-----------------------------------------------------------------------------
(* Collections that lose their last element *)

EmptyHset ==
    \E k \in Keys, f \in {"f", "g"} :
        /\ Run(Cmd("HSET", k, f, 0))

EmptyHdel ==
    \E k \in Keys, f \in {"f", "g"} :
        /\ Run(Cmd("HDEL", k, f, 0))

EmptySrem ==
    \E k \in Keys, m \in {49, 120} :
        /\ Run(Cmd("SREM", k, "", m))

EmptyZrem ==
    \E k \in Keys :
        /\ Run(Cmd("ZREM", k, "", 0))

NextEmpty ==
    \/ EmptyHset \/ CmdSadd \/ CmdZadd \/ CmdRpush \/ EmptyHdel \/ EmptySrem \/ EmptyZrem
    \/ CmdLpop \/ CmdPexpire \/ CmdExists \/ Tick

SpecEmpty == Init /\ [][NextEmpty]_vars

\* C32: no key holds an empty hash, list, set or sorted set, and a key that is
\* not in the keyspace has neither a type tag nor a deadline and EXISTS gives
\* 0 for it
C32_NoEmptyCollection ==
    /\ \A k \in DOMAIN storage.data :
           storage.data[k].kind \in {"list", "ziplist", "dict", "intset", "set", "zset"}
              => storage.data[k].items # <<>>
    /\ \A k \in Keys \ DOMAIN storage.data :
           /\ k \notin DOMAIN storage.types
           /\ k \notin DOMAIN storage.expires
           /\ exists(storage, k, now).r = integer(0)

\* LPOP has just taken the last element of a list that had a deadline
C32_Witness ==
    /\ last.op = "LPOP"
    /\ last.r.kind = "bulk"
    /\ ~last.dead
    /\ last.key \notin DOMAIN storage.data

-----------------------------------------------------------------------------
(* Sorted sets: the scores dict and the sorted list *)

\* scores the clients send: two numbers and nan
ZsetScores == {1, 2, NaN}

ZsetZadd ==
    \E k \in Keys, m \in {"a", "b"}, score \in ZsetScores :
        /\ Run(Cmd("ZADD", k, m, score))

ZsetZrem ==
    \E k \in Keys, m \in {"a", "b"} :
        /\ Run(Cmd("ZREM", k, m, 0))

ZsetZincrby ==
    \E k \in Keys, m \in {"a", "b"} :
        /\ Run(Cmd("ZINCRBY", k, m, 1))

\* a call of SortedSetOperations by code that embeds the storage: zadd with
\* flags, or zincrby
Call(op, key, o) ==
    /\ InBounds(o.S)
    /\ \A k \in DOMAIN o.S.data : \A m \in DOMAIN o.S.data[k].scores :
          o.S.data[k].scores[m] <= NaN + MaxList
    /\ storage' = o.S
    /\ last' = Last(op, "", key, Dead(storage, key, now),
                    Cardinality(Live(storage, now)), o.r, FALSE, 0)
    /\ UNCHANGED <<now, client_state, dirty, schedVars, ioVars>>

ZsetZaddFlags ==
    \E k \in Keys, m \in {"a", "b"}, score \in {1, 2},
       flags \in {{"nx"}, {"xx"}, {"gt"}, {"lt", "ch"}} :
        /\ Call("ZADD", k, zadd(storage, k, score, encode(m), flags, now))

ZsetIncrement ==
    \E k \in Keys, m \in {"a", "b"} :
        /\ storage.data # EmptyDict
        /\ \A x \in DOMAIN storage.data : \A y \in DOMAIN storage.data[x].scores :
              storage.data[x].scores[y] # 2
        /\ Call("ZINCRBY", k, zincrby(storage, k, 1, encode(m), now))

NextZset ==
    \/ ZsetZadd \/ ZsetZrem \/ ZsetZincrby \/ ZsetZaddFlags \/ ZsetIncrement
    \/ CmdPexpire \/ Tick

SpecZset == Init /\ [][NextZset]_vars

\* scores and sorted_list of one value agree, and sorted_list is in order
Agree(value) ==
    /\ \A m \in DOMAIN value.scores :
          Cardinality({i \in 1 .. Len(value.items) :
                          value.items[i] = <<value.scores[m], m>>}) = 1
    /\ \A i \in 1 .. Len(value.items) :
          /\ value.items[i][2] \in DOMAIN value.scores
          /\ value.scores[value.items[i][2]] = value.items[i][1]
    /\ \A i \in 1 .. Len(value.items) - 1 :
          \/ TupleLt(value.items[i], value.items[i + 1])
          \/ value.items[i] = value.items[i + 1]

\* C33: in every sorted set each (member, score) pair of the map occurs
\* exactly once in the sorted list, the list holds nothing else, and the list
\* is ordered by (score, member)
C33_ZsetStructuresAgree ==
    \A k \in DOMAIN storage.data :
        storage.data[k].kind = "zset" => Agree(storage.data[k])

-----------------------------------------------------------------------------
(* XTRIM with every maxlen from 0 on, XLEN and XRANGE *)

XtrimTo(k, maxlen) == Run(Cmd("XTRIM", k, "", maxlen))

TrimXtrim ==
    \E k \in Keys, maxlen \in 0 .. MaxList :
        /\ XtrimTo(k, maxlen)

TrimXlen ==
    \E k \in Keys :
        /\ Run(Cmd("XLEN", k, "", 0))

TrimXrange ==
    \E k \in Keys :
        /\ Run(Cmd("XRANGE", k, "", 0))

NextTrim ==
    \/ StreamXadd \/ StreamXaddAuto \/ TrimXtrim \/ TrimXlen \/ TrimXrange
    \/ CmdRpush \/ CmdDel \/ Tick

SpecTrim == Init /\ [][NextTrim]_vars

\* the n newest of entries, all of them where there are no more than n
Newest(entries, n) ==
    IF n >= Len(entries) THEN entries
    ELSE SubSeq(entries, Len(entries) - n + 1, Len(entries))

\* C34: after XTRIM key MAXLEN n, n >= 0, on a stream, XRANGE key - + returns
\* at most n entries, the newest ones of the stream before, and XLEN reports
\* as many entries as XRANGE returns
C34_XtrimKeepsNewest ==
    [][\A k \in Keys, n \in 0 .. MaxList :
          (XtrimTo(k, n) /\ last'.r.kind = "int") =>
              /\ xrange(storage', k, now').r.n <= n
              /\ xrange(storage', k, now').r.v = Newest(xrange(storage, k, now).r.v, n)
              /\ xlen(storage', k, now').r.n = xrange(storage', k, now').r.n]_vars

-----------------------------------------------------------------------------
(* PUBLISH while the registries change *)

\* C35: a PUBLISH that is in its fan-out completes with an integer reply
\* whatever other connections subscribe, unsubscribe or disconnect meanwhile:
\* the publisher's handler does not end, and the step that finishes the
\* fan-out leaves the number of recipients as reply
C35_PublishSurvivesChanges ==
    [][\A c \in Conns :
          net.pc[c] \in {"iter", "write"} =>
              /\ net'.pc[c] \in {"iter", "write", "read"}
              /\ net'.pc[c] = "read" => net'.reply[c].n >= 0]_vars

-----------------------------------------------------------------------------
(* save_async: the keys are encoded across yields while commands run *)

\* list(self._storage._data.keys()): the keys in the order of the dict
KeyLists(S) ==
    {klist \in [1 .. Cardinality(DOMAIN S.data) -> DOMAIN S.data] :
        \A i, j \in DOMAIN klist : i # j => klist[i] # klist[j]}

\* the loop of save_async over the keys left, between two yields: a key that
\* is no longer in _data is skipped, an encoder that raises ends the save
RECURSIVE EncodeRest(_, _, _)
EncodeRest(parts, S, todo) ==
    IF todo = <<>> THEN [ok |-> TRUE, recs |-> parts]
    ELSE IF Head(todo) \notin DOMAIN S.data THEN EncodeRest(parts, S, Tail(todo))
    ELSE IF ~_encode_key(S, Head(todo)).ok THEN [ok |-> FALSE, recs |-> parts]
    ELSE EncodeRest(DictPut(parts, Head(todo), _encode_key(S, Head(todo)).rec), S, Tail(todo))

\* save_async starts: the key list is taken, the first key encoded, and the
\* task yields (i % 50 == 0 holds for i = 0); without keys the snapshot is the
\* header and the task yields after its first chunk
AsyncBegin ==
    /\ disk.pc = "idle" /\ ~disk.stopped
    /\ \E klist \in KeyLists(storage) :
        \E e \in {EncodeRest(EmptyDict, storage, IF klist = <<>> THEN <<>> ELSE <<Head(klist)>>)} :
          /\ disk' = [disk EXCEPT
                        !.pc = IF ~e.ok THEN "idle" ELSE IF klist = <<>> THEN "write" ELSE "encode",
                        !.tmp = IF e.ok /\ klist = <<>> THEN File("partial", e.recs) ELSE @,
                        !.todo = IF e.ok /\ klist # <<>> THEN Tail(klist) ELSE <<>>,
                        !.parts = e.recs,
                        !.insts = {EncodeKeys(storage).recs}]
          /\ last' = IF e.ok THEN NoLast ELSE Last("SAVE", "", "", FALSE, 0, False, FALSE, 0)
    /\ UNCHANGED <<storage, now, client_state, dirty, schedVars, parser, wire, net>>

\* save_async resumes: the keys 1 to 50 of the list are encoded from the
\* keyspace as it is now, the header and CRC are added, the temporary file is
\* opened, the first chunk written, and the task yields again
AsyncEncode ==
    /\ disk.pc = "encode"
    /\ \E e \in {EncodeRest(disk.parts, storage, disk.todo)} :
          /\ disk' = [disk EXCEPT !.pc = IF e.ok THEN "write" ELSE "idle",
                                  !.tmp = IF e.ok THEN File("partial", e.recs) ELSE @,
                                  !.todo = <<>>, !.parts = e.recs]
          /\ last' = IF e.ok THEN NoLast ELSE Last("SAVE", "", "", FALSE, 0, False, FALSE, 0)
    /\ UNCHANGED <<storage, now, client_state, dirty, schedVars, parser, wire, net>>

AsyncCmds ==
    {Cmd("SET", "a", "", 0), Cmd("SETBIT", "b", "", 0), Cmd("DEL", "a", "", 0),
     Cmd("RENAME", "b", "a", 0)}

\* a client's command runs while save_async is suspended at a yield of its
\* encoding loop, or while no save is on; insts collects what a snapshot of
\* each keyspace the save has lived through would hold
AsyncCommand ==
    \E cmd \in AsyncCmds : \E o \in {execute(storage, cmd, now)} :
        /\ disk.pc \in {"idle", "encode"} /\ ~disk.stopped
        /\ InBounds(o.S)
        /\ storage' = o.S
        /\ disk' = [disk EXCEPT !.insts = IF disk.pc = "idle" THEN {}
                                            ELSE @ \cup {EncodeKeys(o.S).recs}]
        /\ last' = NoLast
        /\ UNCHANGED <<now, client_state, dirty, schedVars, parser, wire, net>>

\* save_async resumes in its write loop: the rest of the snapshot goes to
\* the file object, the file is closed, os.remove(path) and os.rename(tmp,
\* path) follow without a yield.  A temporary path that is gone makes rename
\* raise OSError after the live file was removed, and save_async returns False
AsyncFinish ==
    /\ disk.pc = "write"
    /\ disk' = [disk EXCEPT !.pc = "idle", !.parts = EmptyDict, !.insts = {},
                            !.live = IF disk.tmp.state = "none" THEN NoFile
                                     ELSE File("full", disk.tmp.recs),
                            !.tmp = NoFile]
    /\ last' = Last("SAVE", "", "", FALSE, 0,
                    IF disk.tmp.state = "none" THEN False ELSE True, FALSE, 0)
    /\ UNCHANGED <<storage, now, client_state, dirty, schedVars, parser, wire, net>>

\* MicroRedisServer.stop calls save() while the auto-save task is where it
\* is: the keys are encoded, the temporary path is opened for writing (the
\* file save_async may hold open), written and closed, the live file is
\* removed and the temporary path renamed to it
ShutdownSave ==
    /\ ~disk.stopped
    /\ \E e \in {EncodeKeys(storage)} :
          disk' = [disk EXCEPT !.stopped = TRUE,
                               !.live = IF e.ok THEN File("full", e.recs) ELSE @,
                               !.tmp = IF e.ok THEN NoFile ELSE @]
    /\ last' = Last("STOP", "", "", FALSE, 0, True, FALSE, 0)
    /\ UNCHANGED <<storage, now, client_state, dirty, schedVars, parser, wire, net>>

NextAsync ==
    AsyncBegin \/ AsyncEncode \/ AsyncCommand \/ AsyncFinish \/ ShutdownSave

SpecAsync == Init /\ [][NextAsync]_vars

\* C36: the snapshot save_async has written holds the keyspace as it stood at
\* one single instant of the save: the records are those of one of the
\* keyspaces between the start of the save and the end of its writing
C36_SnapshotIsOneInstant ==
    disk.pc = "write" => disk.parts \in disk.insts

\* C37: when the shutdown save has run while an auto-save was suspended at
\* one of its yields and both have finished, the live path holds a complete
\* snapshot
C37_LiveSnapshotAfterShutdown ==
    (disk.stopped /\ disk.pc = "idle") => disk.live.state = "full"

-----------------------------------------------------------------------------
(* The forward and the reverse registries of PubSubManager *)

\* connection c is in the set that registry d keeps under name
Has(d, name, c) == name \in DOMAIN d /\ c \in d[name]

\* C38: after every SUBSCRIBE, UNSUBSCRIBE, PSUBSCRIBE, PUNSUBSCRIBE and
\* disconnect a connection is in the set of a channel exactly when the
\* channel is in the connection's set of channels, and in the set of a
\* pattern exactly when the pattern is in the connection's set of patterns.
C38_RegistriesAgree ==
    \A c \in Conns :
        /\ \A channel \in Channels :
               Has(net.channels, channel, c) <=> Has(net.client_channels, c, channel)
        /\ \A pattern \in Patterns :
               Has(net.patterns, pattern, c) <=> Has(net.client_patterns, c, pattern)

\* a connection that held a channel and a pattern has gone, another one has
\* given up one of its two patterns and still holds the channel and the other
C38_Witness ==
    \E c \in Conns, d \in Conns :
        /\ net.pc[c] = "ended" /\ {"channel", "pattern"} \subseteq net.had[c]
        /\ d # c /\ net.pc[d] = "read"
        /\ Has(net.client_channels, d, "ch")
        /\ Has(net.client_patterns, d, "x*") /\ ~Has(net.client_patterns, d, "c*")

-----------------------------------------------------------------------------
(* SpecSet: one set per key, with members that are and are not the decimal  *)
(* form Python prints for an int                                            *)

\* b"01", b"1" and b"x"
SetMembers == {<<48, 49>>, <<49>>, <<120>>}

SaddOf(k, m) == Call("SADD", k, sadd(storage, k, m, now))

SremOf(k, m) == Call("SREM", k, srem(storage, k, m, now))

SismemberOf(k, m) == Call("SISMEMBER", k, sismember(storage, k, m, now))

ScardOf(k) == Call("SCARD", k, scard(storage, k, now))

SetSadd ==
    \E k \in Keys, m \in SetMembers :
        /\ SaddOf(k, m)

SetSrem ==
    \E k \in Keys, m \in SetMembers :
        /\ SremOf(k, m)

SetSismember ==
    \E k \in Keys, m \in SetMembers :
        /\ SismemberOf(k, m)

SetSmembers ==
    \E k \in Keys :
        /\ Call("SMEMBERS", k, smembers(storage, k, now))

SetScard ==
    \E k \in Keys :
        /\ ScardOf(k)

NextSet ==
    \/ SetSadd \/ SetSrem \/ SetSismember \/ SetSmembers \/ SetScard
    \/ CmdRpush \/ CmdPexpire \/ CmdDel \/ Tick

SpecSet == Init /\ [][NextSet]_vars

\* the byte strings SMEMBERS returns for key k
Members(S, k, t) == {smembers(S, k, t).r.v[i] : i \in 1 .. Len(smembers(S, k, t).r.v)}

\* C39: a set answers as a plain set of the byte strings added to it, in
\* both encodings and across the promotion: SADD of m answers 1 exactly when
\* SMEMBERS did not return m before and SMEMBERS returns m afterwards with
\* the members it returned before; SREM of m answers 1 exactly when SMEMBERS
\* returned m and SMEMBERS no longer returns it afterwards; SISMEMBER of m
\* answers 1 exactly when SMEMBERS returns m; SCARD answers the number of
\* members SMEMBERS returns.
C39_IntsetIsPlainSet ==
    [][\A k \in Keys, m \in SetMembers :
          /\ (SaddOf(k, m) /\ last'.r.kind = "int") =>
                 /\ last'.r.n = (IF m \in Members(storage, k, now) THEN 0 ELSE 1)
                 /\ Members(storage', k, now') = Members(storage, k, now) \cup {m}
          /\ (SremOf(k, m) /\ last'.r.kind = "int") =>
                 /\ last'.r.n = (IF m \in Members(storage, k, now) THEN 1 ELSE 0)
                 /\ Members(storage', k, now') = Members(storage, k, now) \ {m}
          /\ (SismemberOf(k, m) /\ last'.r.kind = "int") =>
                 last'.r.n = (IF m \in Members(storage, k, now) THEN 1 ELSE 0)
          /\ (ScardOf(k) /\ last'.r.kind = "int") =>
                 last'.r.n = Cardinality(Members(storage, k, now))]_vars

-----------------------------------------------------------------------------
(* SpecMove: SMOVE between the keys, also onto a key that cannot be created *)

SmoveOf(k, d, m) == Call("SMOVE", k, smove(storage, k, d, <<m>>, now))

MoveSmove ==
    \E k \in Keys, d \in Keys, m \in {49, 120} :
        /\ SmoveOf(k, d, m)

NextMove ==
    \/ CmdSadd \/ MoveSmove \/ CmdRpush \/ CmdDel \/ CmdPexpire \/ Tick

SpecMove == Init /\ [][NextMove]_vars

\* C40: an SMOVE that answers an error leaves the members of both sets as
\* they were, and after every SMOVE of a member the source held, the member
\* is in the source or in the destination.
C40_FailedSmoveChangesNothing ==
    [][\A k \in Keys, d \in Keys, m \in {49, 120} :
          SmoveOf(k, d, m) =>
              /\ last'.r.kind # "int" =>
                     /\ Members(storage', k, now') = Members(storage, k, now)
                     /\ Members(storage', d, now') = Members(storage, d, now)
              /\ <<m>> \in Members(storage, k, now) =>
                     <<m>> \in Members(storage', k, now') \cup Members(storage', d, now')]_vars

====
